---------------------------- MODULE Spec2Model ----------------------------
(***************************************************************************)
(* A model of koosh-cursor-tools: the four batch workflows (add-links,     *)
(* create-animated, create-hyprcursor, rename-cursors) and the file and    *)
(* command utilities of lib.rs they are built from, over an explicit       *)
(* filesystem.                                                             *)
(*                                                                         *)
(* The filesystem is a function from paths (sequences of names) to nodes.  *)
(* A node is a directory, a regular file with its contents, or a symbolic  *)
(* link with its stored target (a name relative to the link's directory).  *)
(* Every external tool is an input: its exit status and the files it       *)
(* leaves are chosen nondeterministically where the tool is invoked.       *)
(* File modes are not modelled; an I/O call fails only for the reasons     *)
(* the filesystem state gives it (a missing source, a directory in the     *)
(* way, a dangling link).                                                  *)
(***************************************************************************)
EXTENDS Integers, Sequences, FiniteSets, TLC

VARIABLES
    cmd,      \* the subcommand (or utility function) being run
    args,     \* its arguments
    env,      \* which optional tools `which` finds
    pc,       \* the position in the workflow
    fs,       \* the filesystem
    todo,     \* entries of the directory being iterated not yet visited
    cur,      \* create-animated: the cursor being assembled
    log,      \* the external commands run, with their exit status, since the
              \* workflow (in create-animated: the current cursor) began
    result,   \* "none" while running, then "Ok" or "Err"
    fs0       \* the filesystem the run found when it started

vars == <<cmd, args, env, pc, fs, todo, cur, log, result, fs0>>

---------------------------------------------------------------------------
\* Bounds of the model.

\* Most frames xcur2png leaves for one cursor.
MaxFrames == 2

\* Most symbolic links followed when a path is resolved.
MaxHops == 3

---------------------------------------------------------------------------
\* Paths and nodes.

Root == <<"proj">>
Cwd == <<"proj", "koosh">>
Home == <<"home">>

\* lib.rs get_icons_dir: <home>/.icons
get_icons_dir == Home \o <<".icons">>

NoData ==
    [src |-> "", name |-> "", note |-> "", frame |-> 0, size |-> 0,
     lines |-> <<>>]

\* The contents of a binary file: where it comes from.
Data(src, name, frame, size) ==
    [src |-> src, name |-> name, note |-> "", frame |-> frame, size |-> size,
     lines |-> <<>>]

\* The contents of a text file.
Text(src, name, note, lines) ==
    [src |-> src, name |-> name, note |-> note, frame |-> 0, size |-> 0,
     lines |-> lines]

DirNode == [kind |-> "dir", target |-> "", data |-> NoData]
FileNode(data) == [kind |-> "file", target |-> "", data |-> data]
LinkNode(target) == [kind |-> "link", target |-> target, data |-> NoData]

Parent(p) == SubSeq(p, 1, Len(p) - 1)

IsPrefix(d, p) == Len(d) <= Len(p) /\ SubSeq(p, 1, Len(d)) = d

\* The entries of directory d (what read_dir yields).
Children(f, d) == {p \in DOMAIN f : Len(p) = Len(d) + 1 /\ IsPrefix(d, p)}

\* d and everything below it.
Under(f, d) == {p \in DOMAIN f : IsPrefix(d, p)}

RECURSIVE Follow(_, _, _)
\* The path the kernel reaches from p by following symbolic links: the
\* final path may be absent (a dangling link) or still a link (too many hops).
Follow(f, p, n) ==
    IF p \in DOMAIN f /\ f[p].kind = "link" /\ n > 0
    THEN Follow(f, Parent(p) \o <<f[p].target>>, n - 1)
    ELSE p

\* Path::exists: follows links; false for a dangling link.
Exists(f, p) ==
    LET q == Follow(f, p, MaxHops) IN q \in DOMAIN f /\ f[q].kind # "link"

\* Path::is_file: follows links.
IsFile(f, p) ==
    LET q == Follow(f, p, MaxHops) IN q \in DOMAIN f /\ f[q].kind = "file"

\* Path::is_dir: follows links.
IsDir(f, p) ==
    LET q == Follow(f, p, MaxHops) IN q \in DOMAIN f /\ f[q].kind = "dir"

\* Path::is_symlink: does not follow.
IsSymlink(f, p) == p \in DOMAIN f /\ f[p].kind = "link"

\* fs::remove_dir_all on an existing directory (a link is only unlinked).
RemoveDirAll(f, d) ==
    LET gone == IF IsSymlink(f, d) THEN {d} ELSE Under(f, d)
    IN  [q \in DOMAIN f \ gone |-> f[q]]

\* fs::remove_file
RemoveFile(f, p) == [q \in DOMAIN f \ {p} |-> f[q]]

\* fs::create_dir_all fails when d or an ancestor is there and no directory.
CanCreateDirAll(f, d) ==
    \A k \in 1..Len(d) :
        LET q == SubSeq(d, 1, k) IN (q \in DOMAIN f \/ IsSymlink(f, q)) => IsDir(f, q)

\* fs::create_dir_all: the directory and every missing ancestor.
CreateDirAll(f, d) ==
    LET new == {SubSeq(d, 1, k) : k \in 1..Len(d)} \ DOMAIN f
    IN  f @@ [q \in new |-> DirNode]

\* fs::write and the writing half of fs::copy open the destination with
\* O_CREAT|O_TRUNC, which follows a link at the destination.
CanWrite(f, p) ==
    LET q == Follow(f, p, MaxHops)
    IN  /\ IsDir(f, Parent(q))
        /\ q \in DOMAIN f => f[q].kind = "file"

Write(f, p, data) == (Follow(f, p, MaxHops) :> FileNode(data)) @@ f

\* fs::copy: the source must resolve to a regular file.
CanCopy(f, from, to) == IsFile(f, from) /\ CanWrite(f, to)

Copy(f, from, to) == Write(f, to, f[Follow(f, from, MaxHops)].data)

---------------------------------------------------------------------------
\* lib.rs: CursorTheme, FileUtils, CommandUtils.

\* CursorTheme::new: cursors_dir = path.join("cursors")
cursors_dir(path) == path \o <<"cursors">>

\* CursorTheme::create_directories: create_dir_all(cursors_dir)
create_directories(f, path) == CreateDirAll(f, cursors_dir(path))

\* FileUtils::create_symlink succeeds unless the existing entry at `link`
\* cannot be unlinked (remove_file on a directory) or the link's directory
\* is missing (symlink(2) fails).
create_symlink_ok(f, target, link) ==
    /\ (Exists(f, link) \/ IsSymlink(f, link)) => f[link].kind # "dir"
    /\ IsDir(f, Parent(link))

\* A variant of create_symlink that keeps what is at `link`.
create_symlink_KeepingExisting(f, target, link) ==
    IF link \in DOMAIN f THEN f ELSE (link :> LinkNode(target)) @@ f

\* FileUtils::create_symlink: remove what is at `link`, then symlink(target, link).
create_symlink(f, target, link) ==
    LET removed == IF Exists(f, link) \/ IsSymlink(f, link)
                   THEN RemoveFile(f, link)
                   ELSE f
    IN  (link :> LinkNode(target)) @@ removed

\* The part of p below base.
Rel(base, p) == SubSeq(p, Len(base) + 1, Len(p))

\* What WalkDir::new(from) yields: the root (a link at the root is followed)
\* and everything below it; links below the root are not followed.
WalkDir(f, from) == Under(f, Follow(f, from, MaxHops))

\* One entry of the walk copies: a directory is created at the destination,
\* anything else goes through fs::copy, which needs a regular file behind
\* the source and no directory at the destination.
CopyEntryOk(f, base, to, p) ==
    LET dest == to \o Rel(base, p)
    IN  IF IsDir(f, p)
        THEN dest \in DOMAIN f => IsDir(f, dest)
        ELSE /\ IsFile(f, p)
             /\ LET q == Follow(f, dest, MaxHops)
                IN  q \in DOMAIN f => f[q].kind = "file"

CopyEntry(f, src, base, to, p) ==
    LET dest == to \o Rel(base, p)
    IN  IF IsDir(src, p)
        THEN CreateDirAll(f, dest)
        ELSE Write(CreateDirAll(f, Parent(dest)), dest,
                   src[Follow(src, p, MaxHops)].data)

RECURSIVE CopyEntries(_, _, _, _, _)
\* The entries of S copied one after the other (the result does not depend
\* on the order: each entry has its own destination).
CopyEntries(f, src, base, to, S) ==
    IF S = {} THEN f
    ELSE LET p == CHOOSE q \in S : TRUE
         IN  CopyEntries(CopyEntry(f, src, base, to, p), src, base, to, S \ {p})

\* A variant of copy_dir_recursive without the check of `from`.
copy_dir_recursive_Unchecked(f, from, to) ==
    IF ~CanCreateDirAll(f, to)
    THEN {[ok |-> FALSE, fs |-> f]}
    ELSE LET base == Follow(f, from, MaxHops)
             f1 == CreateDirAll(f, to)
             all == WalkDir(f, from)
         IN  {[ok |-> \A p \in all : CopyEntryOk(f1, base, to, p),
               fs |-> CopyEntries(f1, f, base, to,
                                  {p \in all : CopyEntryOk(f1, base, to, p)})]}

\* FileUtils::copy_dir_recursive: the possible outcomes [ok, fs]. It fails
\* before touching anything when `from` does not exist or `to` cannot be
\* created. Otherwise it creates
\* `to` and walks `from`, the root first; the walk stops at the first entry
\* that cannot be copied. The directory's order decides what was copied by
\* then: the model keeps the two extremes, the failing entry met right after
\* the root and met last.
copy_dir_recursive(f, from, to) ==
    IF ~Exists(f, from) \/ ~CanCreateDirAll(f, to)
    THEN {[ok |-> FALSE, fs |-> f]}
    ELSE LET base == Follow(f, from, MaxHops)
             f1 == CreateDirAll(f, to)
             all == WalkDir(f, from)
             good == {p \in all : CopyEntryOk(f1, base, to, p)}
         IN  IF good = all
             THEN {[ok |-> TRUE, fs |-> CopyEntries(f1, f, base, to, all)]}
             ELSE {[ok |-> FALSE, fs |-> CopyEntries(f1, f, base, to, S)] :
                      S \in {good \cap {base}, good}}

\* FileUtils::set_permissions_recursive: chmod on every entry of the walk;
\* chmod follows links, so a dangling link (or a missing root) is an error.
set_permissions_recursive_ok(f, path) ==
    /\ Exists(f, path)
    /\ \A p \in WalkDir(f, path) : Exists(f, p)

\* The byte that is not valid UTF-8, and what from_utf8_lossy puts for it.
InvalidByte == "\\xFF"
ReplacementCharacter == "\\u{FFFD}"

\* What a process may write to stderr: chunks of UTF-8 text and invalid bytes.
Stderrs == {<<>>, <<"boom">>, <<"bo", InvalidByte, "om">>}

\* The exit of an external process: whether it could be started, its exit
\* code (-1: killed by a signal) and what it wrote to stderr.
Outcomes == [started : BOOLEAN, code : {-1, 0, 1, 2}, stderr : Stderrs]

\* ExitStatus::success of a started process.
Success(o) == o.code = 0

RECURSIVE Join(_, _)
\* [&str]::join(sep)
Join(words, sep) ==
    IF Len(words) = 0 THEN ""
    ELSE IF Len(words) = 1 THEN words[1]
    ELSE words[1] \o sep \o Join(Tail(words), sep)

\* String::from_utf8_lossy(bytes).to_string()
from_utf8_lossy(bytes) ==
    Join([i \in 1..Len(bytes) |->
             IF bytes[i] = InvalidByte THEN ReplacementCharacter ELSE bytes[i]],
         "")

NoError == [kind |-> "", command |-> "", error |-> ""]

\* A variant of run_command that does not look at the exit status.
run_command_IgnoringExitStatus(command, arguments, o) ==
    IF ~o.started
    THEN [ok |-> FALSE,
          err |-> [kind |-> "Failed to execute command",
                   command |-> command, error |-> ""]]
    ELSE [ok |-> TRUE, err |-> NoError]

\* CommandUtils::run_command on a process that ended as `o`.
run_command(command, arguments, o) ==
    IF ~o.started
    THEN [ok |-> FALSE,
          err |-> [kind |-> "Failed to execute command",
                   command |-> command, error |-> ""]]
    ELSE IF ~Success(o)
    THEN [ok |-> FALSE,
          err |-> [kind |-> "CommandFailed",
                   command |-> command \o " " \o Join(arguments, " "),
                   error |-> from_utf8_lossy(o.stderr)]]
    ELSE [ok |-> TRUE, err |-> NoError]

\* CommandUtils::command_exists: `which command` exits zero.
command_exists(e, command) == command \in e

---------------------------------------------------------------------------
\* cursor_mapping.rs: the static tables.

\* get_windows_to_x11_mapping: Windows cursor name -> X11 cursor name.
get_windows_to_x11_mapping ==
    [Normal |-> "left_ptr", Link |-> "link", Person |-> "pointer",
     Handwriting |-> "pencil", Text |-> "text", Unavailable |-> "not-allowed",
     Busy |-> "wait", Working |-> "progress", Precision |-> "crosshair",
     Move |-> "move", Alternate |-> "question_arrow", Help |-> "help",
     Pin |-> "pin", Horizontal |-> "size_hor", Vertical |-> "size_ver",
     Diagonal1 |-> "size_bdiag", Diagonal2 |-> "size_fdiag"]

\* get_cursor_symlinks: (target, link name), in the order of the vector.
get_cursor_symlinks ==
    << <<"left_ptr", "arrow">>, <<"left_ptr", "default">>,
       <<"left_ptr", "top_left_arrow">>, <<"pointer", "hand1">>,
       <<"pointer", "hand2">>, <<"pointer", "pointing_hand">>,
       <<"pointer", "openhand">>, <<"pointer", "grab">>,
       <<"move", "fleur">>, <<"move", "all-scroll">>, <<"move", "size_all">>,
       <<"wait", "watch">>, <<"progress", "left_ptr_watch">>,
       <<"crosshair", "cross">>, <<"text", "xterm">>, <<"text", "ibeam">>,
       <<"pencil", "draft">>, <<"question_arrow", "help">>,
       <<"question_arrow", "whats_this">>,
       <<"question_arrow", "left_ptr_help">>,
       <<"not-allowed", "crossed_circle">>, <<"not-allowed", "forbidden">>,
       <<"not-allowed", "no_drop">>, <<"not-allowed", "dnd_no_drop">>,
       <<"size_hor", "sb_h_double_arrow">>, <<"size_hor", "h_double_arrow">>,
       <<"size_hor", "ew-resize">>, <<"size_hor", "col-resize">>,
       <<"size_hor", "split_h">>, <<"size_ver", "sb_v_double_arrow">>,
       <<"size_ver", "v_double_arrow">>, <<"size_ver", "ns-resize">>,
       <<"size_ver", "row-resize">>, <<"size_ver", "split_v">>,
       <<"size_bdiag", "fd_double_arrow">>, <<"size_bdiag", "nesw-resize">>,
       <<"size_fdiag", "bd_double_arrow">>, <<"size_fdiag", "nwse-resize">>,
       <<"left_ptr", "wayland-cursor">>,
       <<"left_ptr_watch", "00000000000000020006000e7e9ffc3f">>,
       <<"left_ptr_watch", "08e8e1c95fe2fc01f976f1e063a24ccd">>,
       <<"left_ptr_watch", "3ecb610c1bf2410f44200f48c40d3599">>,
       <<"sb_v_double_arrow", "00008160000006810000408080010102">>,
       <<"sb_v_double_arrow", "2870a09082c103050810ffdffffe0204">>,
       <<"sb_h_double_arrow", "028006030e0e7ebffc7f7070c0600140">>,
       <<"sb_h_double_arrow", "14fef782d02440884392942c1120523">>,
       <<"crossed_circle", "03b6e0fcb3499374a867c041f52298f0">>,
       <<"question_arrow", "5c6cd98b3f3ebcb1f9c7f1c204630408">>,
       <<"question_arrow", "d9ce0ab605698f320427677b458ad60b">>,
       <<"move", "4498f0e0c1937ffe01fd06f973665830">>,
       <<"move", "9081237383d90e509aa00f00170e968f">>,
       <<"link", "3085a0e285430894940527032f8b26df">>,
       <<"link", "640fb0e74195791501fd1ed57b41487f">>,
       <<"link", "a2a266d0498c3104214a47bd64ab0fc8">>,
       <<"hand2", "9d800788f1b08800ae810202380a0822">>,
       <<"hand2", "e29285e634086352946a0e7090d73106">>,
       <<"size_fdiag", "c7088f0f3e6c8088236ef8e1e3e70000">>,
       <<"size_bdiag", "fcf1c3c7cd4491d801f1e1c78f100000">>,
       <<"copy", "1081e37283d90000800003c07f3ef6bf">>,
       <<"copy", "6407b0e94181790501fd1e167b474872">>,
       <<"copy", "b66166c04f8c3109214a4fbd64a50fc8">>,
       <<"dnd-link", "alias">>, <<"plus", "cell">>,
       <<"grabbing", "closedhand">>, <<"tcross", "color-picker">>,
       <<"cross", "cross_reverse">>, <<"cross", "diamond_cross">>,
       <<"grabbing", "dnd-move">>, <<"grabbing", "dnd-none">>,
       <<"dotbox", "dot_box_mask">>, <<"sb_v_double_arrow", "double_arrow">>,
       <<"sb_down_arrow", "down-arrow">>, <<"right_ptr", "draft_large">>,
       <<"right_ptr", "draft_small">>, <<"dotbox", "draped_box">>,
       <<"right_side", "e-resize">>,
       <<"grabbing", "fcf21c00b30f7e3f83fe0dfd12e71cff">>,
       <<"dotbox", "icon">>, <<"sb_left_arrow", "left-arrow">>,
       <<"top_right_corner", "ne-resize">>, <<"dnd_no_drop", "no-drop">>,
       <<"top_side", "n-resize">>, <<"top_left_corner", "nw-resize">>,
       <<"X_cursor", "pirate">>, <<"sb_right_arrow", "right-arrow">>,
       <<"bottom_right_corner", "se-resize">>,
       <<"sb_h_double_arrow", "size-hor">>,
       <<"sb_v_double_arrow", "size-ver">>, <<"bottom_side", "s-resize">>,
       <<"bottom_left_corner", "sw-resize">>, <<"dotbox", "target">>,
       <<"sb_up_arrow", "up-arrow">>, <<"left_side", "w-resize">>,
       <<"X_cursor", "x-cursor">> >>

\* theme_config.rs STANDARD_SIZES
STANDARD_SIZES == <<24, 32, 48, 64, 72, 96>>

\* str::starts_with, str::ends_with
StartsWith(s, pre) == Len(pre) <= Len(s) /\ SubSeq(s, 1, Len(pre)) = pre
EndsWith(s, suf) ==
    Len(suf) <= Len(s) /\ SubSeq(s, Len(s) - Len(suf) + 1, Len(s)) = suf

\* Path::file_name
FileName(p) == p[Len(p)]

\* create_index_theme and create_cursor_theme: the two theme files, with
\* Name=<theme_name>, the comment and one section per size.
create_theme_files(f, theme_path, theme_name, comment, sizes) ==
    LET f1 == Write(f, theme_path \o <<"index.theme">>,
                    Text("index.theme", theme_name, comment, sizes))
    IN  Write(f1, theme_path \o <<"cursor.theme">>,
              Text("cursor.theme", theme_name, comment, <<>>))

---------------------------------------------------------------------------
\* The exit of a workflow and the log of external commands.

Status(o) ==
    IF ~o.started THEN "spawn_error"
    ELSE IF Success(o) THEN "zero" ELSE "nonzero"

\* The ways a tool run inside a workflow can end.
ToolRuns ==
    {[started |-> FALSE, code |-> 0, stderr |-> <<>>],
     [started |-> TRUE, code |-> 1, stderr |-> <<"boom">>],
     [started |-> TRUE, code |-> 0, stderr |-> <<>>]}

Ran(tool, subject, o) == [tool |-> tool, subject |-> subject, status |-> Status(o)]

NoCursor ==
    [name |-> "", frame_count |-> 0, orig_size |-> 0, si |-> 0, frame |-> 0,
     config |-> <<>>]

\* The workflow returns r, leaving the filesystem as f and the log as l.
Return(r, f, l) ==
    /\ pc' = "done"
    /\ result' = r
    /\ fs' = f
    /\ log' = l
    /\ todo' = {}
    /\ cur' = NoCursor
    /\ UNCHANGED <<cmd, args, env, fs0>>

\* The workflow moves on to position next.
Goto(next, f, l) ==
    /\ pc' = next
    /\ fs' = f
    /\ log' = l
    /\ UNCHANGED <<cmd, args, env, result, fs0>>

---------------------------------------------------------------------------
\* commands/create_animated.rs

animated_input_path == Cwd \o <<args.input_theme>>
animated_input_cursors == cursors_dir(animated_input_path)
animated_output_path == Cwd \o <<args.output_theme>>
animated_output_cursors == cursors_dir(animated_output_path)
animated_user_icons_dir == get_icons_dir \o <<args.output_theme>>
animated_temp_dir == Cwd \o <<"koosh_animated_temp">>

\* format!("{:03}", frame)
Pad3(n) ==
    IF n < 10 THEN "00" \o ToString(n)
    ELSE IF n < 100 THEN "0" \o ToString(n)
    ELSE ToString(n)

\* temp_dir.join(format!("{}_{}.png", cursor_name, frame_num))
FramePng(dir, cursor_name, frame) ==
    dir \o <<cursor_name \o "_" \o Pad3(frame) \o ".png">>

\* working_dir.join(format!("{}_{}.png", size, frame_num))
SizedPng(dir, size, frame) ==
    dir \o <<ToString(size) \o "_" \o Pad3(frame) \o ".png">>

\* What a successful xcur2png leaves: the frames it extracted into the
\* directory given with -d, and its <name>.conf in the current directory.
Xcur2pngWrites(f, dir, name, frames) ==
    LET S == {FramePng(dir, name, i) : i \in frames}
        png == [p \in S |->
                  FileNode(Data("frame", name,
                                CHOOSE i \in frames : FramePng(dir, name, i) = p,
                                0))]
        conf == Cwd \o <<name \o ".conf">>
    IN  (conf :> FileNode(Text("xcur2png.conf", name, "", <<>>))) @@ png @@ f

\* The next position once an entry of the cursors directory is done.
AfterEntry(rest) ==
    IF rest = {} THEN "create_additional_symlinks" ELSE "process_entry"

\* create_animated_theme, lines 32-68: validate the input, then recreate the
\* output theme, its installation directory and the temporary directory.
create_animated_theme_setup ==
    /\ cmd = "create-animated"
    /\ pc = "start"
    /\ IF ~Exists(fs, animated_input_path) \/ ~Exists(fs, animated_input_cursors)
       THEN Return("Err", fs, log)
       ELSE LET f1 == IF Exists(fs, animated_output_path)
                      THEN RemoveDirAll(fs, animated_output_path) ELSE fs
                f2 == create_directories(f1, animated_output_path)
                f3 == IF Exists(f2, animated_user_icons_dir)
                      THEN RemoveDirAll(f2, animated_user_icons_dir) ELSE f2
                f4 == CreateDirAll(f3, cursors_dir(animated_user_icons_dir))
                f5 == IF Exists(f4, animated_temp_dir)
                      THEN RemoveDirAll(f4, animated_temp_dir) ELSE f4
                f6 == CreateDirAll(f5, animated_temp_dir)
            IN  /\ Goto("process_cursor_files", f6, log)
                /\ UNCHANGED <<todo, cur>>

\* process_cursor_files, line 124: read_dir(input_cursors).
animated_process_cursor_files ==
    /\ cmd = "create-animated"
    /\ pc = "process_cursor_files"
    /\ IF ~IsDir(fs, animated_input_cursors)
       THEN Return("Err", fs, log)
       ELSE LET entries == Children(fs, Follow(fs, animated_input_cursors, MaxHops))
            IN  /\ Goto(AfterEntry(entries), fs, log)
                /\ todo' = entries
                /\ UNCHANGED cur

\* count_extracted_frames: the entries named <cursor_name>_*.png
count_extracted_frames(f, dir, cursor_name) ==
    Cardinality({p \in Children(f, dir) :
                    /\ StartsWith(FileName(p), cursor_name \o "_")
                    /\ EndsWith(FileName(p), ".png")})

\* copy_symlink: read_link(src), then create_symlink(target, dest_dir/name).
copy_symlink_ok(f, src, dest_dir) ==
    create_symlink_ok(f, f[src].target, dest_dir \o <<FileName(src)>>)

copy_symlink(f, src, dest_dir) ==
    create_symlink(f, f[src].target, dest_dir \o <<FileName(src)>>)

\* A variant of ExtractionUsable that does not look at the frame count.
ExtractionUsable_IgnoringFrameCount(o, frame_count) == o.started /\ Success(o)

\* process_single_cursor, lines 162-182: whether the extraction result sends
\* the cursor on to create_multi_size_cursor (otherwise the original is copied).
ExtractionUsable(o, frame_count) == o.started /\ Success(o) /\ frame_count # 0

\* One iteration of the loop of process_cursor_files. A regular file goes
\* through process_single_cursor up to the call of create_multi_size_cursor:
\* xcur2png runs, its frames are counted, and on a failed or empty extraction
\* the original is copied. A symbolic link is copied as a link.
process_single_cursor ==
    /\ cmd = "create-animated"
    /\ pc = "process_entry"
    /\ \E cursor_file \in todo :
         LET cursor_name == FileName(cursor_file)
             rest == todo \ {cursor_file}
             dest == animated_output_cursors \o <<cursor_name>>
         IN  IF IsFile(fs, cursor_file) /\ ~IsSymlink(fs, cursor_file)
             THEN LET cursor_temp_dir == animated_temp_dir \o <<cursor_name>>
                      f1 == CreateDirAll(fs, cursor_temp_dir)
                  IN  \E o \in ToolRuns, frames \in SUBSET (0..(MaxFrames - 1)) :
                        /\ frames # {} => o.started /\ Success(o)
                        /\ LET f2 == IF o.started /\ Success(o)
                                     THEN Xcur2pngWrites(f1, cursor_temp_dir,
                                                         cursor_name, frames)
                                     ELSE f1
                               l2 == <<Ran("xcur2png", cursor_name, o)>>
                               frame_count == count_extracted_frames(
                                                  f2, cursor_temp_dir, cursor_name)
                           IN  IF ExtractionUsable(o, frame_count)
                               THEN /\ Goto("create_multi_size_cursor", f2, l2)
                                    /\ todo' = rest
                                    /\ cur' = [NoCursor EXCEPT
                                                 !.name = cursor_name,
                                                 !.frame_count = frame_count]
                               ELSE IF CanCopy(f2, cursor_file, dest)
                               THEN /\ Goto(AfterEntry(rest),
                                            Copy(f2, cursor_file, dest), l2)
                                    /\ todo' = rest
                                    /\ UNCHANGED cur
                               ELSE Return("Err", f2, l2)
             ELSE IF IsSymlink(fs, cursor_file)
             THEN IF copy_symlink_ok(fs, cursor_file, animated_output_cursors)
                  THEN /\ Goto(AfterEntry(rest),
                               copy_symlink(fs, cursor_file, animated_output_cursors),
                               <<>>)
                       /\ todo' = rest
                       /\ UNCHANGED cur
                  ELSE Return("Err", fs, log)
             ELSE /\ Goto(AfterEntry(rest), fs, <<>>)
                  /\ todo' = rest
                  /\ UNCHANGED cur

\* cursor_mapping.rs get_cursor_hotspot: the hotspot ratios (x, y) of a
\* cursor name, each as a fraction; the first matching arm wins.
Ratio(num, den) == [num |-> num, den |-> den]

\* get_cursor_hotspot with only "left_ptr" in its first arm.
get_cursor_hotspot_WithoutAliases(cursor_name) ==
    IF cursor_name = "left_ptr"
    THEN <<Ratio(1, 8), Ratio(1, 8)>>
    ELSE IF cursor_name \in {"text", "xterm", "ibeam"}
    THEN <<Ratio(1, 2), Ratio(1, 2)>>
    ELSE IF StartsWith(cursor_name, "pointer") \/ StartsWith(cursor_name, "hand")
    THEN <<Ratio(3, 10), Ratio(1, 8)>>
    ELSE IF cursor_name = "pencil"
    THEN <<Ratio(1, 8), Ratio(1, 8)>>
    ELSE <<Ratio(1, 2), Ratio(1, 2)>>

get_cursor_hotspot(cursor_name) ==
    IF cursor_name \in {"left_ptr", "not-allowed", "unavailable"}
    THEN <<Ratio(1, 8), Ratio(1, 8)>>
    ELSE IF cursor_name \in {"text", "xterm", "ibeam"}
    THEN <<Ratio(1, 2), Ratio(1, 2)>>
    ELSE IF StartsWith(cursor_name, "pointer") \/ StartsWith(cursor_name, "hand")
    THEN <<Ratio(3, 10), Ratio(1, 8)>>
    ELSE IF cursor_name = "pencil"
    THEN <<Ratio(1, 8), Ratio(1, 8)>>
    ELSE <<Ratio(1, 2), Ratio(1, 2)>>

\* Hotspot without the scaling: the size times the numerator alone.
Hotspot_Unscaled(size, ratio) ==
    LET v == size * ratio.num IN IF v < 1 THEN 1 ELSE v

\* ((size as f64 * ratio) as u32).max(1): the cast truncates toward zero.
Hotspot(size, ratio) ==
    LET v == (size * ratio.num) \div ratio.den IN IF v < 1 THEN 1 ELSE v

RECURSIVE Trim(_)
\* str::trim: the white space at both ends is dropped.
Trim(s) ==
    LET IsSpace(c) == c \in {" ", "\n", "\t", "\r"}
    IN  IF Len(s) = 0 THEN s
        ELSE IF IsSpace(SubSeq(s, 1, 1)) THEN Trim(SubSeq(s, 2, Len(s)))
        ELSE IF IsSpace(SubSeq(s, Len(s), Len(s))) THEN Trim(SubSeq(s, 1, Len(s) - 1))
        ELSE s

RECURSIVE ParseDigits(_, _)
\* The value of a string of digits, or -1 if another character occurs.
ParseDigits(s, acc) ==
    LET Digits == "0123456789"
        c == SubSeq(s, 1, 1)
        At == {d \in 1..Len(Digits) : SubSeq(Digits, d, d) = c}
    IN  IF Len(s) = 0 THEN acc
        ELSE IF At # {}
        THEN ParseDigits(SubSeq(s, 2, Len(s)),
                         acc * 10 + (CHOOSE d \in At : TRUE) - 1)
        ELSE -1

\* str::parse::<u32>: digits after an optional '+'. The model reads numbers
\* of up to nine digits, all of which fit 32 bits; a longer string of digits
\* is outside it and is refused.
ParseU32(s) ==
    LET body == IF Len(s) > 0 /\ SubSeq(s, 1, 1) = "+" THEN SubSeq(s, 2, Len(s)) ELSE s
        v == IF Len(body) = 0 \/ Len(body) > 9 THEN -1 ELSE ParseDigits(body, 0)
    IN  IF v < 0 THEN [ok |-> FALSE, value |-> 0]
        ELSE [ok |-> TRUE, value |-> v]

\* What `identify -format %w` may print.
IdentifyOutputs == {"32", "50\n", "junk"}

\* get_image_size: an error when identify cannot be run or prints no
\* number; the default 48 when identify exits non-zero.
get_image_size(o, stdout) ==
    IF ~o.started THEN [ok |-> FALSE, value |-> 0]
    ELSE IF Success(o) THEN ParseU32(Trim(stdout))
    ELSE [ok |-> TRUE, value |-> 48]

working_dir == animated_temp_dir \o <<cur.name, "working">>

\* create_multi_size_cursor, lines 211-229: the original size from the first
\* frame (48 when there is no first frame), then the working directory.
create_multi_size_cursor ==
    /\ cmd = "create-animated"
    /\ pc = "create_multi_size_cursor"
    /\ LET temp == animated_temp_dir \o <<cur.name>>
           first_frame == FramePng(temp, cur.name, 0)
           f1 == CreateDirAll(fs, working_dir)
       IN  IF Exists(fs, first_frame)
           THEN \E o \in ToolRuns, stdout \in IdentifyOutputs \cup {""} :
                  /\ (stdout # "") <=> (o.started /\ Success(o))
                  /\ LET size == get_image_size(o, stdout)
                         l1 == Append(log, Ran("identify", cur.name, o))
                     IN  IF size.ok
                         THEN /\ Goto("scale", f1, l1)
                              /\ cur' = [cur EXCEPT !.orig_size = size.value,
                                                    !.si = 1, !.frame = 0]
                              /\ UNCHANGED todo
                         ELSE Return("Err", fs, l1)
           ELSE /\ Goto("scale", f1, log)
                /\ cur' = [cur EXCEPT !.orig_size = 48, !.si = 1, !.frame = 0]
                /\ UNCHANGED todo

\* scale_image: magick if `which` finds it, else convert; Ok exactly when
\* the tool ran and exited zero.
scale_image(e, o) ==
    [ok |-> o.started /\ Success(o),
     tool |-> IF command_exists(e, "magick") THEN "magick" ELSE "convert"]

\* A variant of NextFrame that leaves the loops after the fifth size.
NextFrame_WithoutLastSize(c) ==
    IF c.frame + 1 < c.frame_count THEN [c EXCEPT !.frame = c.frame + 1]
    ELSE [c EXCEPT !.si = IF c.si + 1 = Len(STANDARD_SIZES) THEN c.si + 2
                          ELSE c.si + 1,
                   !.frame = 0]

\* The loop position after (si, frame): the next frame, then the next size.
NextFrame(c) ==
    IF c.frame + 1 < c.frame_count THEN [c EXCEPT !.frame = c.frame + 1]
    ELSE [c EXCEPT !.si = c.si + 1, !.frame = 0]

\* A variant of ConfigLine that names the frame without padding.
ConfigLine_UnpaddedFrame(size, hotspot_x, hotspot_y, frame) ==
    [size |-> size, hotspot_x |-> hotspot_x, hotspot_y |-> hotspot_y,
     file |-> ToString(size) \o "_" \o ToString(frame) \o ".png", delay |-> 100]

\* The line added to the xcursorgen config (100 ms per frame).
ConfigLine(size, hotspot_x, hotspot_y, frame) ==
    [size |-> size, hotspot_x |-> hotspot_x, hotspot_y |-> hotspot_y,
     file |-> ToString(size) \o "_" \o Pad3(frame) \o ".png", delay |-> 100]

\* create_multi_size_cursor, lines 232-264: one iteration of the loops over
\* the sizes and the frames. A missing frame is skipped; the frame of the
\* original size is copied, any other is scaled (the scaler leaves its
\* output when it exits zero); then the frame gets its config line.
scale_frame ==
    /\ cmd = "create-animated"
    /\ pc = "scale"
    /\ LET temp == animated_temp_dir \o <<cur.name>>
           size == STANDARD_SIZES[cur.si]
           hot == get_cursor_hotspot(cur.name)
           hotspot_x == Hotspot(size, hot[1])
           hotspot_y == Hotspot(size, hot[2])
           src_png == FramePng(temp, cur.name, cur.frame)
           dst_png == SizedPng(working_dir, size, cur.frame)
           next == NextFrame(cur)
           after == IF next.si > Len(STANDARD_SIZES) THEN "xcursorgen" ELSE "scale"
           line == ConfigLine(size, hotspot_x, hotspot_y, cur.frame)
       IN  IF ~Exists(fs, src_png)
           THEN /\ Goto(after, fs, log)
                /\ cur' = next
                /\ UNCHANGED todo
           ELSE IF size = cur.orig_size
           THEN IF CanCopy(fs, src_png, dst_png)
                THEN /\ Goto(after, Copy(fs, src_png, dst_png), log)
                     /\ cur' = [next EXCEPT !.config = Append(cur.config, line)]
                     /\ UNCHANGED todo
                ELSE Return("Err", fs, log)
           ELSE \E o \in ToolRuns :
                  LET r == scale_image(env, o)
                      l1 == Append(log, Ran(r.tool, dst_png[Len(dst_png)], o))
                  IN  IF r.ok
                      THEN /\ Goto(after,
                                   Write(fs, dst_png,
                                         Data("scaled", cur.name, cur.frame, size)),
                                   l1)
                           /\ cur' = [next EXCEPT !.config = Append(cur.config, line)]
                           /\ UNCHANGED todo
                      ELSE Return("Err", fs, l1)

\* A variant of GeneratedUsable that does not look at the exit status.
GeneratedUsable_IgnoringExitStatus(o, f, cursor_output) ==
    o.started /\ Exists(f, cursor_output)

\* create_multi_size_cursor, line 278: the generated cursor is used when
\* xcursorgen ran, exited zero and left its output file.
GeneratedUsable(o, f, cursor_output) ==
    o.started /\ Success(o) /\ Exists(f, cursor_output)

\* create_multi_size_cursor, lines 266-290 (up to the copy): write the
\* config, run xcursorgen in the working directory (it may leave an output
\* file whatever its exit status), and copy its output into the theme. On
\* any failure nothing is copied.
run_xcursorgen ==
    /\ cmd = "create-animated"
    /\ pc = "xcursorgen"
    /\ LET config_file == working_dir \o <<"cursor.config">>
           cursor_output == working_dir \o <<"cursor">>
           dest == animated_output_cursors \o <<cur.name>>
           f1 == Write(fs, config_file, Text("cursor.config", cur.name, "", cur.config))
       IN  \E o \in ToolRuns, made \in BOOLEAN :
             /\ made => o.started
             /\ LET f2 == IF made
                          THEN Write(f1, cursor_output,
                                     Text("xcursorgen", cur.name, "", cur.config))
                          ELSE f1
                    l1 == Append(log, Ran("xcursorgen", cur.name, o))
                IN  IF GeneratedUsable(o, f2, cursor_output)
                    THEN IF CanCopy(f2, cursor_output, dest)
                         THEN /\ Goto("verify", Copy(f2, cursor_output, dest), l1)
                              /\ UNCHANGED <<todo, cur>>
                         ELSE Return("Err", f2, l1)
                    ELSE /\ Goto(AfterEntry(todo), f2, l1)
                         /\ cur' = NoCursor
                         /\ UNCHANGED todo

\* verify_generated_cursor: extract the generated cursor into working/verify,
\* report, and remove that directory again; a failing xcur2png is only a
\* warning.
verify_generated_cursor ==
    /\ cmd = "create-animated"
    /\ pc = "verify"
    /\ LET verify_dir == working_dir \o <<"verify">>
           f1 == CreateDirAll(fs, verify_dir)
       IN  \E o \in ToolRuns, frames \in SUBSET (0..(MaxFrames - 1)) :
             /\ frames # {} => o.started /\ Success(o)
             /\ LET f2 == IF o.started /\ Success(o)
                          THEN Xcur2pngWrites(f1, verify_dir, "cursor", frames)
                          ELSE f1
                    f3 == IF Exists(f2, verify_dir)
                          THEN RemoveDirAll(f2, verify_dir) ELSE f2
                IN  /\ Goto(AfterEntry(todo), f3,
                            Append(log, Ran("xcur2png", "cursor", o)))
                    /\ cur' = NoCursor
                    /\ UNCHANGED todo

---------------------------------------------------------------------------
\* The compatibility-symlink pass: create_cursor_symlinks (add_links.rs),
\* create_compatibility_symlinks (rename_cursors.rs) and
\* create_additional_symlinks (create_animated.rs) are the same loop over
\* get_cursor_symlinks.

\* A variant of link_wanted that does not look at the link's place.
link_wanted_IgnoringLink(f, dir, pair) == Exists(f, dir \o <<pair[1]>>)

\* The guard of the loop body: target_path.exists() && !link_path.exists()
link_wanted(f, dir, pair) ==
    Exists(f, dir \o <<pair[1]>>) /\ ~Exists(f, dir \o <<pair[2]>>)

\* The first table entry from index i on whose guard holds (0: none).
NextWanted(f, dir, i) ==
    LET J == {j \in i..Len(get_cursor_symlinks) :
                 link_wanted(f, dir, get_cursor_symlinks[j])}
    IN  IF J = {} THEN 0 ELSE CHOOSE j \in J : \A k \in J : j <= k

\* The loop from where it stands (cur.si entries visited) through the next
\* entry that creates a link; past the last entry the pass is over.
SymlinkPass(dir, after) ==
    LET j == NextWanted(fs, dir, cur.si + 1)
    IN  IF j = 0
        THEN /\ Goto(after, fs, <<>>)
             /\ cur' = NoCursor
             /\ UNCHANGED todo
        ELSE LET target == get_cursor_symlinks[j][1]
                 link_path == dir \o <<get_cursor_symlinks[j][2]>>
             IN  IF create_symlink_ok(fs, target, link_path)
                 THEN /\ Goto(pc, create_symlink(fs, target, link_path), <<>>)
                      /\ cur' = [cur EXCEPT !.si = j]
                      /\ UNCHANGED todo
                 ELSE Return("Err", fs, <<>>)

\* create_animated.rs create_additional_symlinks
create_additional_symlinks ==
    /\ cmd = "create-animated"
    /\ pc = "create_additional_symlinks"
    /\ SymlinkPass(animated_output_cursors, "create_theme_files")

create_theme_files_ok(f, theme_path) ==
    /\ CanWrite(f, theme_path \o <<"index.theme">>)
    /\ CanWrite(f, theme_path \o <<"cursor.theme">>)

\* create_animated_theme, lines 76-82
animated_create_theme_files ==
    /\ cmd = "create-animated"
    /\ pc = "create_theme_files"
    /\ IF create_theme_files_ok(fs, animated_output_path)
       THEN /\ Goto("install_to_user_icons",
                    create_theme_files(fs, animated_output_path, args.output_theme,
                        "Koosh cursor theme with proper animation support",
                        STANDARD_SIZES),
                    log)
            /\ UNCHANGED <<todo, cur>>
       ELSE Return("Err", fs, log)

\* if src.exists() { fs::copy(src, dst)? }: [ok, fs]
CopyIfExists(f, src, dst) ==
    IF ~Exists(f, src) THEN [ok |-> TRUE, fs |-> f]
    ELSE IF CanCopy(f, src, dst) THEN [ok |-> TRUE, fs |-> Copy(f, src, dst)]
    ELSE [ok |-> FALSE, fs |-> f]

\* A variant of CopyThemeFiles that copies index.theme alone.
CopyThemeFiles_WithoutCursorTheme(f, theme_path, dest) ==
    CopyIfExists(f, theme_path \o <<"index.theme">>, dest \o <<"index.theme">>)

\* The two theme files copied after the cursors directory: [ok, fs]
CopyThemeFiles(f, theme_path, dest) ==
    LET a == CopyIfExists(f, theme_path \o <<"index.theme">>,
                          dest \o <<"index.theme">>)
    IN  IF a.ok
        THEN CopyIfExists(a.fs, theme_path \o <<"cursor.theme">>,
                          dest \o <<"cursor.theme">>)
        ELSE a

\* create_animated.rs install_to_user_icons
animated_install_to_user_icons ==
    /\ cmd = "create-animated"
    /\ pc = "install_to_user_icons"
    /\ \E r \in copy_dir_recursive(fs, animated_output_cursors,
                                  cursors_dir(animated_user_icons_dir)) :
         IF r.ok
         THEN LET t == CopyThemeFiles(r.fs, animated_output_path,
                                      animated_user_icons_dir)
              IN  IF t.ok
                  THEN /\ Goto("set_permissions", t.fs, log)
                       /\ UNCHANGED <<todo, cur>>
                  ELSE Return("Err", t.fs, log)
         ELSE Return("Err", r.fs, log)

\* create_animated_theme, lines 87-89
animated_set_permissions ==
    /\ cmd = "create-animated"
    /\ pc = "set_permissions"
    /\ IF /\ set_permissions_recursive_ok(fs, animated_output_path)
          /\ set_permissions_recursive_ok(fs, animated_user_icons_dir)
       THEN /\ Goto("update_icon_cache", fs, log)
            /\ UNCHANGED <<todo, cur>>
       ELSE Return("Err", fs, log)

\* A variant of UpdateIconCache that passes on the failure of the tool.
UpdateIconCache_FailingOnError(theme_name, after) ==
    IF command_exists(env, "gtk-update-icon-cache")
    THEN \E o \in ToolRuns :
           LET l1 == Append(log, Ran("gtk-update-icon-cache", theme_name, o))
           IN  IF o.started /\ Success(o)
               THEN /\ Goto(after, fs, l1)
                    /\ UNCHANGED <<todo, cur>>
               ELSE Return("Err", fs, l1)
    ELSE /\ Goto(after, fs, log)
         /\ UNCHANGED <<todo, cur>>

\* update_icon_cache (the same in the four workflows): gtk-update-icon-cache
\* runs if `which` finds it, and its result is dropped.
UpdateIconCache(theme_name, after) ==
    IF command_exists(env, "gtk-update-icon-cache")
    THEN \E o \in ToolRuns :
           /\ Goto(after, fs,
                   Append(log, Ran("gtk-update-icon-cache", theme_name, o)))
           /\ UNCHANGED <<todo, cur>>
    ELSE /\ Goto(after, fs, log)
         /\ UNCHANGED <<todo, cur>>

\* create_animated.rs update_icon_cache
animated_update_icon_cache ==
    /\ cmd = "create-animated"
    /\ pc = "update_icon_cache"
    /\ UpdateIconCache(args.output_theme, "clean_up")

RECURSIVE LastDot(_, _)
\* The position of the last '.' among the first n characters (0: none).
LastDot(s, n) ==
    IF n = 0 THEN 0
    ELSE IF SubSeq(s, n, n) = "." THEN n
    ELSE LastDot(s, n - 1)

\* Path::extension: what follows the last '.', unless the name starts with it.
Extension(name) ==
    LET d == LastDot(name, Len(name))
    IN  IF d <= 1 THEN "" ELSE SubSeq(name, d + 1, Len(name))

\* create_animated_theme, lines 94-113: remove the temporary directory, then
\* every entry of the current directory with the extension conf.
animated_clean_up ==
    /\ cmd = "create-animated"
    /\ pc = "clean_up"
    /\ LET f1 == IF Exists(fs, animated_temp_dir)
                 THEN RemoveDirAll(fs, animated_temp_dir) ELSE fs
           conf == {p \in Children(f1, Cwd) : Extension(FileName(p)) = "conf"}
           stuck == {p \in conf : f1[p].kind = "dir"}
       IN  IF stuck = {}
           THEN Return("Ok", [q \in DOMAIN f1 \ conf |-> f1[q]], log)
           ELSE \E S \in SUBSET (conf \ stuck) :
                  Return("Err", [q \in DOMAIN f1 \ S |-> f1[q]], log)

---------------------------------------------------------------------------
\* commands/create_hyprcursor.rs

extract_dir == Cwd \o <<"koosh_extract">>
output_dir == Cwd \o <<"koosh_hyprcursor">>
hypr_source_path == get_icons_dir \o <<args.source_theme>>
hypr_user_theme_dir == get_icons_dir \o <<args.dest_theme>>

\* extract_dir.join(format!("extracted_{}", source_theme))
extracted_theme_dir == extract_dir \o <<"extracted_" \o args.source_theme>>
manifest_path == extracted_theme_dir \o <<"manifest.hl">>

\* output_dir.join(format!("theme_{}", dest_theme))
theme_output_dir == output_dir \o <<"theme_" \o args.dest_theme>>

RECURSIVE PathString(_)
\* Path::to_str
PathString(p) ==
    IF Len(p) = 0 THEN ""
    ELSE IF Len(p) = 1 THEN p[1]
    ELSE p[1] \o "/" \o PathString(Tail(p))

RECURSIVE IndexOf(_, _, _)
\* The first position from i on where character c stands in s (0: none).
IndexOf(s, c, i) ==
    IF i > Len(s) THEN 0
    ELSE IF SubSeq(s, i, i) = c THEN i
    ELSE IndexOf(s, c, i + 1)

\* A line without its trailing carriage return.
StripCR(s) ==
    IF Len(s) > 0 /\ SubSeq(s, Len(s), Len(s)) = "\r"
    THEN SubSeq(s, 1, Len(s) - 1) ELSE s

RECURSIVE Lines(_)
\* str::lines: the text split at line feeds; a final line feed ends the last
\* line and starts no empty one.
Lines(s) ==
    IF Len(s) = 0 THEN <<>>
    ELSE LET i == IndexOf(s, "\n", 1)
         IN  IF i = 0 THEN <<StripCR(s)>>
             ELSE <<StripCR(SubSeq(s, 1, i - 1))>> \o Lines(SubSeq(s, i + 1, Len(s)))

\* update_manifest, lines 112-122: the closure mapped over the lines.
update_manifest_line(line, dest_theme) ==
    IF StartsWith(line, "name = ") THEN "name = " \o dest_theme
    ELSE IF StartsWith(line, "description = ")
    THEN "description = Koosh cursor theme with hyprcursor support for Wayland"
    ELSE IF StartsWith(line, "version = ") THEN "version = 1.0"
    ELSE line

\* update_manifest, lines 110-124: the new contents of manifest.hl.
update_manifest_content(content, dest_theme) ==
    LET old == Lines(content)
    IN  Join([i \in 1..Len(old) |-> update_manifest_line(old[i], dest_theme)],
             "\n")

\* The manifests hyprcursor-util --extract may write: the usual one, one
\* without blanks around '=' and without a final line feed, and one that ends
\* with an empty line.
Manifests ==
    {"name = Src\ndescription = Extracted\nversion = 0.1\ncursors_directory = hyprcursors\n",
     "cursors_directory = hyprcursors\nname=Src",
     "name = Src\nversion = 0.1\n\n"}

\* What hyprcursor-util reads as the theme's name: the value of the last
\* line whose key is `name`, with any blanks around the '='.
RECURSIVE ManifestName(_, _)
ManifestName(lines, found) ==
    IF Len(lines) = 0 THEN found
    ELSE LET eq == IndexOf(lines[1], "=", 1)
             key == IF eq = 0 THEN "" ELSE Trim(SubSeq(lines[1], 1, eq - 1))
             value == Trim(SubSeq(lines[1], eq + 1, Len(lines[1])))
         IN  ManifestName(Tail(lines), IF key = "name" THEN value ELSE found)

\* What a successful hyprcursor-util --extract leaves: extracted_<source>
\* with the shapes and, if it wrote one, the manifest.
ExtractWrites(f, source_theme, manifest) ==
    LET dir == extract_dir \o <<"extracted_" \o source_theme>>
        f1 == Write(CreateDirAll(f, dir \o <<"hyprcursors">>),
                    dir \o <<"hyprcursors", "left_ptr">>,
                    Data("shape", "left_ptr", 0, 0))
    IN  IF manifest = "" THEN f1
        ELSE Write(f1, dir \o <<"manifest.hl">>,
                   Text("manifest.hl", "", manifest, <<>>))

\* What a successful hyprcursor-util --create leaves: theme_<name>, named
\* after the manifest it read.
CreateWrites(f, from) ==
    LET content == f[from \o <<"manifest.hl">>].data.note
        dir == output_dir \o <<"theme_" \o ManifestName(Lines(content), "")>>
        f1 == Write(CreateDirAll(f, dir \o <<"hyprcursors">>),
                    dir \o <<"hyprcursors", "left_ptr.hlc">>,
                    Data("hlc", "left_ptr", 0, 0))
    IN  Write(f1, dir \o <<"manifest.hl">>, Text("manifest.hl", "", content, <<>>))

\* Step 1, extract_source_theme: recreate koosh_extract, check the source
\* theme, run hyprcursor-util --extract.
extract_source_theme ==
    /\ cmd = "create-hyprcursor"
    /\ pc = "start"
    /\ LET f1 == IF Exists(fs, extract_dir) THEN RemoveDirAll(fs, extract_dir) ELSE fs
           f2 == CreateDirAll(f1, extract_dir)
       IN  IF ~Exists(f2, hypr_source_path)
           THEN Return("Err", f2, log)
           ELSE \E o \in ToolRuns, manifest \in Manifests \cup {""} :
                  /\ manifest # "" => o.started /\ Success(o)
                  /\ LET r == run_command("hyprcursor-util",
                                  <<"--extract", PathString(hypr_source_path),
                                    "--output", PathString(extract_dir)>>, o)
                         l1 == Append(log, Ran("hyprcursor-util", "--extract", o))
                     IN  IF r.ok
                         THEN /\ Goto("update_manifest",
                                      ExtractWrites(f2, args.source_theme, manifest),
                                      l1)
                              /\ UNCHANGED <<todo, cur>>
                         ELSE Return("Err", f2, l1)

\* Step 2, update_manifest
update_manifest ==
    /\ cmd = "create-hyprcursor"
    /\ pc = "update_manifest"
    /\ IF ~Exists(fs, manifest_path)
       THEN Return("Err", fs, log)
       ELSE LET content == fs[Follow(fs, manifest_path, MaxHops)].data.note
                updated == update_manifest_content(content, args.dest_theme)
            IN  /\ Goto("create_hyprcursor",
                        Write(fs, manifest_path,
                              Text("manifest.hl", "", updated, <<>>)),
                        log)
                /\ UNCHANGED <<todo, cur>>

\* Step 3, create_hyprcursor: recreate koosh_hyprcursor, run
\* hyprcursor-util --create.
create_hyprcursor ==
    /\ cmd = "create-hyprcursor"
    /\ pc = "create_hyprcursor"
    /\ LET f1 == IF Exists(fs, output_dir) THEN RemoveDirAll(fs, output_dir) ELSE fs
           f2 == CreateDirAll(f1, output_dir)
       IN  \E o \in ToolRuns, made \in BOOLEAN :
             /\ made => o.started
             /\ LET r == run_command("hyprcursor-util",
                             <<"--create", PathString(extracted_theme_dir),
                               "--output", PathString(output_dir)>>, o)
                    l1 == Append(log, Ran("hyprcursor-util", "--create", o))
                    f3 == IF made THEN CreateWrites(f2, extracted_theme_dir) ELSE f2
                IN  IF r.ok
                    THEN /\ Goto("install_hyprcursor_theme", f3, l1)
                         /\ UNCHANGED <<todo, cur>>
                    ELSE Return("Err", f3, l1)

\* Step 4, install_hyprcursor_theme: recreate ~/.icons/<dest> and copy the
\* generated theme_<dest> into it.
install_hyprcursor_theme ==
    /\ cmd = "create-hyprcursor"
    /\ pc = "install_hyprcursor_theme"
    /\ LET f1 == IF Exists(fs, hypr_user_theme_dir)
                 THEN RemoveDirAll(fs, hypr_user_theme_dir) ELSE fs
           f2 == CreateDirAll(f1, hypr_user_theme_dir)
       IN  IF Exists(f2, theme_output_dir)
           THEN \E r \in copy_dir_recursive(f2, theme_output_dir, hypr_user_theme_dir) :
                  IF r.ok
                  THEN /\ Goto("copy_x11_cursors", r.fs, log)
                       /\ UNCHANGED <<todo, cur>>
                  ELSE Return("Err", r.fs, log)
           ELSE Return("Err", f2, log)

\* A variant of copy_x11_cursors that goes on after a failed copy.
copy_x11_cursors_IgnoringErrors ==
    /\ cmd = "create-hyprcursor"
    /\ pc = "copy_x11_cursors"
    /\ LET source_cursors == cursors_dir(hypr_source_path)
           dest_cursors == cursors_dir(hypr_user_theme_dir)
       IN  IF Exists(fs, source_cursors)
           THEN \E r \in copy_dir_recursive(CreateDirAll(fs, dest_cursors),
                                           source_cursors, dest_cursors) :
                  /\ Goto("create_hyprcursor_config", r.fs, log)
                  /\ UNCHANGED <<todo, cur>>
           ELSE /\ Goto("create_hyprcursor_config", fs, log)
                /\ UNCHANGED <<todo, cur>>

\* Step 5, copy_x11_cursors
copy_x11_cursors ==
    /\ cmd = "create-hyprcursor"
    /\ pc = "copy_x11_cursors"
    /\ LET source_cursors == cursors_dir(hypr_source_path)
           dest_cursors == cursors_dir(hypr_user_theme_dir)
       IN  IF Exists(fs, source_cursors)
           THEN \E r \in copy_dir_recursive(CreateDirAll(fs, dest_cursors),
                                           source_cursors, dest_cursors) :
                  IF r.ok
                  THEN /\ Goto("create_hyprcursor_config", r.fs, log)
                       /\ UNCHANGED <<todo, cur>>
                  ELSE Return("Err", r.fs, log)
           ELSE /\ Goto("create_hyprcursor_config", fs, log)
                /\ UNCHANGED <<todo, cur>>

\* Step 6, create_hyprcursor_config: index.theme (with the hyprcursors
\* directory) and cursor.theme in ~/.icons/<dest>.
create_hyprcursor_config ==
    /\ cmd = "create-hyprcursor"
    /\ pc = "create_hyprcursor_config"
    /\ IF create_theme_files_ok(fs, hypr_user_theme_dir)
       THEN LET comment == "Koosh cursor theme with hyprcursor support for Wayland"
                f1 == Write(fs, hypr_user_theme_dir \o <<"index.theme">>,
                            Text("index.theme", args.dest_theme, comment,
                                 <<"cursors", "hyprcursors">>))
                f2 == Write(f1, hypr_user_theme_dir \o <<"cursor.theme">>,
                            Text("cursor.theme", args.dest_theme, comment, <<>>))
            IN  /\ Goto("update_icon_cache", f2, log)
                /\ UNCHANGED <<todo, cur>>
       ELSE Return("Err", fs, log)

\* Step 7, update_icon_cache
hypr_update_icon_cache ==
    /\ cmd = "create-hyprcursor"
    /\ pc = "update_icon_cache"
    /\ UpdateIconCache(args.dest_theme, "cleanup")

\* Step 8, cleanup: remove koosh_extract and koosh_hyprcursor.
cleanup ==
    /\ cmd = "create-hyprcursor"
    /\ pc = "cleanup"
    /\ LET f1 == IF Exists(fs, extract_dir) THEN RemoveDirAll(fs, extract_dir) ELSE fs
           f2 == IF Exists(f1, output_dir) THEN RemoveDirAll(f1, output_dir) ELSE f1
       IN  Return("Ok", f2, log)

HyprcursorNext ==
    \/ extract_source_theme
    \/ update_manifest
    \/ create_hyprcursor
    \/ install_hyprcursor_theme
    \/ copy_x11_cursors
    \/ create_hyprcursor_config
    \/ hypr_update_icon_cache
    \/ cleanup

---------------------------------------------------------------------------
\* commands/add_links.rs

\* root_dir = the parent of the current directory
add_links_theme_path == Root \o <<args.theme_name>>
add_links_cursors_dir == cursors_dir(add_links_theme_path)
add_links_user_theme_dir == get_icons_dir \o <<args.theme_name>>

\* No path: Option::None, and the error of find_cursor_source.
NoPath == <<>>

\* A variant of find_cursor_source that looks at ./cursors before the
\* directory given.
find_cursor_source_PreferringCwd(f, source_dir) ==
    IF Exists(f, Cwd \o <<"cursors">>) THEN Cwd \o <<"cursors">>
    ELSE IF source_dir # NoPath /\ Exists(f, source_dir) THEN source_dir
    ELSE IF Exists(f, Cwd \o <<"Koosh", "cursors">>) THEN Cwd \o <<"Koosh", "cursors">>
    ELSE IF Exists(f, get_icons_dir \o <<"Koosh", "cursors">>)
    THEN get_icons_dir \o <<"Koosh", "cursors">>
    ELSE NoPath

\* find_cursor_source: the first existing candidate, or NoPath.
find_cursor_source(f, source_dir) ==
    IF source_dir # NoPath /\ Exists(f, source_dir) THEN source_dir
    ELSE IF Exists(f, Cwd \o <<"cursors">>) THEN Cwd \o <<"cursors">>
    ELSE IF Exists(f, Cwd \o <<"Koosh", "cursors">>) THEN Cwd \o <<"Koosh", "cursors">>
    ELSE IF Exists(f, get_icons_dir \o <<"Koosh", "cursors">>)
    THEN get_icons_dir \o <<"Koosh", "cursors">>
    ELSE NoPath

RECURSIVE CopyFiles(_, _, _)
\* fs::copy of every (from, to) pair of S, one after the other, reading the
\* sources as they were in src (no destination is a source).
CopyFiles(f, src, S) ==
    IF S = {} THEN f
    ELSE LET c == CHOOSE x \in S : TRUE
         IN  CopyFiles(Write(f, c[2], src[Follow(src, c[1], MaxHops)].data),
                       src, S \ {c})

\* add_missing_links, lines 22-38: recreate the theme directory and find the
\* cursor source.
add_missing_links_setup ==
    /\ cmd = "add-links"
    /\ pc = "start"
    /\ LET f1 == IF Exists(fs, add_links_theme_path)
                 THEN RemoveDirAll(fs, add_links_theme_path) ELSE fs
           f2 == create_directories(f1, add_links_theme_path)
       IN  IF find_cursor_source(f2, args.source_dir) = NoPath
           THEN Return("Err", f2, log)
           ELSE /\ Goto("copy_cursor_files", f2, log)
                /\ UNCHANGED <<todo, cur>>

\* copy_cursor_files: every entry of the source that is_file (a regular
\* file, or a link to one) is copied under its own name.
copy_cursor_files ==
    /\ cmd = "add-links"
    /\ pc = "copy_cursor_files"
    /\ LET source == find_cursor_source(fs, args.source_dir)
           files == {p \in Children(fs, source) : IsFile(fs, p)}
           copies == {<<p, add_links_cursors_dir \o <<FileName(p)>>>> : p \in files}
       IN  IF IsDir(fs, source) /\ \A c \in copies : CanCopy(fs, c[1], c[2])
           THEN /\ Goto("create_cursor_symlinks", CopyFiles(fs, fs, copies), log)
                /\ cur' = NoCursor
                /\ UNCHANGED todo
           ELSE Return("Err", fs, log)

\* create_cursor_symlinks
create_cursor_symlinks ==
    /\ cmd = "add-links"
    /\ pc = "create_cursor_symlinks"
    /\ SymlinkPass(add_links_cursors_dir, "create_theme_files")

\* add_missing_links, lines 45-50
add_links_create_theme_files ==
    /\ cmd = "add-links"
    /\ pc = "create_theme_files"
    /\ IF create_theme_files_ok(fs, add_links_theme_path)
       THEN /\ Goto("install_to_user_icons",
                    create_theme_files(fs, add_links_theme_path, args.theme_name,
                        "Koosh cursor theme with all necessary symlinks", <<>>),
                    log)
            /\ UNCHANGED <<todo, cur>>
       ELSE Return("Err", fs, log)

\* add_links.rs install_to_user_icons: the installed copy is removed and the
\* whole theme directory copied in its place.
add_links_install_to_user_icons ==
    /\ cmd = "add-links"
    /\ pc = "install_to_user_icons"
    /\ LET f1 == IF Exists(fs, add_links_user_theme_dir)
                 THEN RemoveDirAll(fs, add_links_user_theme_dir) ELSE fs
       IN  \E r \in copy_dir_recursive(f1, add_links_theme_path,
                                      add_links_user_theme_dir) :
             IF r.ok /\ set_permissions_recursive_ok(r.fs, add_links_user_theme_dir)
             THEN /\ Goto("set_permissions", r.fs, log)
                  /\ UNCHANGED <<todo, cur>>
             ELSE Return("Err", r.fs, log)

\* add_missing_links, line 56
add_links_set_permissions ==
    /\ cmd = "add-links"
    /\ pc = "set_permissions"
    /\ IF set_permissions_recursive_ok(fs, add_links_theme_path)
       THEN /\ Goto("update_icon_cache", fs, log)
            /\ UNCHANGED <<todo, cur>>
       ELSE Return("Err", fs, log)

\* add_links.rs update_icon_cache, then the closing messages
add_links_update_icon_cache ==
    /\ cmd = "add-links"
    /\ pc = "update_icon_cache"
    /\ UpdateIconCache(args.theme_name, "finish")

\* add_missing_links, lines 61-75
add_links_finish ==
    /\ cmd = "add-links"
    /\ pc = "finish"
    /\ Return("Ok", fs, log)

AddLinksNext ==
    \/ add_missing_links_setup
    \/ copy_cursor_files
    \/ create_cursor_symlinks
    \/ add_links_create_theme_files
    \/ add_links_install_to_user_icons
    \/ add_links_set_permissions
    \/ add_links_update_icon_cache
    \/ add_links_finish

---------------------------------------------------------------------------
\* commands/rename_cursors.rs

rename_output_path == Cwd \o <<args.output_theme>>
rename_cursors_dir == cursors_dir(rename_output_path)
rename_user_theme_dir == get_icons_dir \o <<args.output_theme>>

\* rename_cursors, lines 24-37: check the input directory, recreate the
\* output theme.
rename_cursors_setup ==
    /\ cmd = "rename-cursors"
    /\ pc = "start"
    /\ IF ~Exists(fs, args.input_dir)
       THEN Return("Err", fs, log)
       ELSE LET f1 == IF Exists(fs, rename_output_path)
                      THEN RemoveDirAll(fs, rename_output_path) ELSE fs
            IN  /\ Goto("process_cursor_files",
                        create_directories(f1, rename_output_path), log)
                /\ UNCHANGED <<todo, cur>>

\* A variant of RenamedCopies that also copies the files without a mapping,
\* under their own names.
RenamedCopies_KeepingUnmapped(f, input_dir, dest) ==
    {<<p, dest \o <<IF FileName(p) \in DOMAIN get_windows_to_x11_mapping
                    THEN get_windows_to_x11_mapping[FileName(p)]
                    ELSE FileName(p)>>>> :
        p \in {q \in Children(f, input_dir) : IsFile(f, q)}}

\* process_cursor_files, lines 75-101: the entries the loop copies, as
\* (from, to) pairs: those that is_file (a regular file, or a link to one)
\* and whose name is a key of the mapping.
RenamedCopies(f, input_dir, dest) ==
    {<<p, dest \o <<get_windows_to_x11_mapping[FileName(p)]>>>> :
        p \in {q \in Children(f, input_dir) :
                  /\ IsFile(f, q)
                  /\ FileName(q) \in DOMAIN get_windows_to_x11_mapping}}

\* rename_cursors.rs process_cursor_files
rename_process_cursor_files ==
    /\ cmd = "rename-cursors"
    /\ pc = "process_cursor_files"
    /\ LET copies == RenamedCopies(fs, args.input_dir, rename_cursors_dir)
       IN  IF /\ IsDir(fs, args.input_dir)
              /\ \A c \in copies : CanCopy(fs, c[1], c[2])
           THEN /\ Goto("create_compatibility_symlinks",
                        CopyFiles(fs, fs, copies), log)
                /\ cur' = NoCursor
                /\ UNCHANGED todo
           ELSE Return("Err", fs, log)

\* create_compatibility_symlinks
create_compatibility_symlinks ==
    /\ cmd = "rename-cursors"
    /\ pc = "create_compatibility_symlinks"
    /\ SymlinkPass(rename_cursors_dir, "create_theme_files")

\* rename_cursors, lines 46-51
rename_create_theme_files ==
    /\ cmd = "rename-cursors"
    /\ pc = "create_theme_files"
    /\ IF create_theme_files_ok(fs, rename_output_path)
       THEN /\ Goto("install_to_user_icons",
                    create_theme_files(fs, rename_output_path, args.output_theme,
                                       "Koosh cursor theme", <<>>),
                    log)
            /\ UNCHANGED <<todo, cur>>
       ELSE Return("Err", fs, log)

\* rename_cursors.rs install_to_user_icons
rename_install_to_user_icons ==
    /\ cmd = "rename-cursors"
    /\ pc = "install_to_user_icons"
    /\ IF rename_output_path = rename_user_theme_dir
       THEN /\ Goto("set_permissions", fs, log)
            /\ UNCHANGED <<todo, cur>>
       ELSE LET f1 == IF Exists(fs, rename_user_theme_dir)
                      THEN RemoveDirAll(fs, rename_user_theme_dir) ELSE fs
                f2 == CreateDirAll(f1, rename_user_theme_dir)
            IN  \E r \in (IF Exists(f2, rename_cursors_dir)
                          THEN copy_dir_recursive(f2, rename_cursors_dir,
                                                  cursors_dir(rename_user_theme_dir))
                          ELSE {[ok |-> TRUE, fs |-> f2]}) :
                  IF r.ok
                  THEN LET t == CopyThemeFiles(r.fs, rename_output_path,
                                               rename_user_theme_dir)
                       IN  IF /\ t.ok
                              /\ set_permissions_recursive_ok(t.fs, rename_user_theme_dir)
                           THEN /\ Goto("set_permissions", t.fs, log)
                                /\ UNCHANGED <<todo, cur>>
                           ELSE Return("Err", t.fs, log)
                  ELSE Return("Err", r.fs, log)

\* rename_cursors, line 57
rename_set_permissions ==
    /\ cmd = "rename-cursors"
    /\ pc = "set_permissions"
    /\ IF set_permissions_recursive_ok(fs, rename_output_path)
       THEN /\ Goto("update_icon_cache", fs, log)
            /\ UNCHANGED <<todo, cur>>
       ELSE Return("Err", fs, log)

\* rename_cursors.rs update_icon_cache
rename_update_icon_cache ==
    /\ cmd = "rename-cursors"
    /\ pc = "update_icon_cache"
    /\ UpdateIconCache(args.output_theme, "list_cursor_files")

\* list_cursor_files: read_dir of the output cursors directory; only prints.
list_cursor_files ==
    /\ cmd = "rename-cursors"
    /\ pc = "list_cursor_files"
    /\ IF IsDir(fs, rename_cursors_dir)
       THEN Return("Ok", fs, log)
       ELSE Return("Err", fs, log)

RenameCursorsNext ==
    \/ rename_cursors_setup
    \/ rename_process_cursor_files
    \/ create_compatibility_symlinks
    \/ rename_create_theme_files
    \/ rename_install_to_user_icons
    \/ rename_set_permissions
    \/ rename_update_icon_cache
    \/ list_cursor_files

AnimatedNext ==
    \/ create_animated_theme_setup
    \/ animated_process_cursor_files
    \/ process_single_cursor
    \/ create_multi_size_cursor
    \/ scale_frame
    \/ run_xcursorgen
    \/ verify_generated_cursor
    \/ create_additional_symlinks
    \/ animated_create_theme_files
    \/ animated_install_to_user_icons
    \/ animated_set_permissions
    \/ animated_update_icon_cache
    \/ animated_clean_up

---------------------------------------------------------------------------
\* The initial filesystems.

\* g with every missing ancestor directory added.
WithParents(g) ==
    LET anc == UNION {{SubSeq(p, 1, k) : k \in 1..(Len(p) - 1)} : p \in DOMAIN g}
    IN  g @@ [q \in anc \ DOMAIN g |-> DirNode]

\* The directory dir holding the entries of listing (name -> node).
InDir(dir, listing) ==
    (dir :> DirNode) @@
    [p \in {dir \o <<n>> : n \in DOMAIN listing} |-> listing[FileName(p)]]

CursorFile(name) == FileNode(Data("cursor", name, 0, 0))
UserFile(name) == FileNode(Data("user", name, 0, 0))

BaseFs == [p \in {Root, Cwd, Home} |-> DirNode]

\* The listings of an input cursors directory: at most one regular cursor
\* file, with nothing else or with a link to a cursor, a dangling link or a
\* subdirectory; and two cursors of which one is named like an alias of the
\* other.
AnimListings ==
    LET FileSets == {{}, {"left_ptr"}, {"help"}}
        Extras == {<<>>, "arrow" :> LinkNode("left_ptr"),
                   "arrow" :> LinkNode("gone"), "sub" :> DirNode}
    IN  {[n \in S |-> CursorFile(n)] @@ x : S \in FileSets, x \in Extras}
        \cup {[n \in {"question_arrow", "help"} |-> CursorFile(n)]}

\* A theme directory with that cursors directory.
Theme(path, listing) ==
    InDir(cursors_dir(path), listing) @@ (path :> DirNode) @@ BaseFs

\* What a run finds besides its input: leftovers of an earlier run and a
\* configuration file of the user's in the current directory.
Leftovers(output_theme) ==
    (Cwd \o <<output_theme, "cursors", "old_cursor">> :> CursorFile("old_cursor"))
    @@ (get_icons_dir \o <<output_theme, "cursors", "old_cursor">>
           :> CursorFile("old_cursor"))
    @@ (Cwd \o <<"koosh_animated_temp", "old", "old_000.png">>
           :> FileNode(Data("frame", "old", 0, 0)))
    @@ (Cwd \o <<"notes.conf">> :> UserFile("notes.conf"))

\* The inputs of create-animated: no input theme, one without a cursors
\* directory, and every listing; the listing of two cursors is run in the
\* first world only.
AnimRuns ==
    LET AnimWorlds ==
            {[stale |-> FALSE, output_theme |-> "Out",
              env |-> {"magick", "gtk-update-icon-cache"}],
             [stale |-> TRUE, output_theme |-> "Out", env |-> {}],
             [stale |-> TRUE, output_theme |-> "In", env |-> {"gtk-update-icon-cache"}]}
        Inputs == {BaseFs, (Cwd \o <<"In">> :> DirNode) @@ BaseFs}
                  \cup {Theme(Cwd \o <<"In">>, l) : l \in AnimListings}
    IN  {r \in [world : AnimWorlds, input : Inputs] :
            \/ ~r.world.stale
            \/ \A p \in DOMAIN r.input : FileName(p) # "question_arrow"}

InitAnimated ==
    /\ cmd = "create-animated"
    /\ \E r \in AnimRuns :
         /\ args = [input_theme |-> "In", output_theme |-> r.world.output_theme]
         /\ env = r.world.env
         /\ fs = IF r.world.stale
                 THEN r.input @@ WithParents(Leftovers(r.world.output_theme))
                 ELSE r.input
    /\ pc = "start"
    /\ todo = {}
    /\ cur = NoCursor
    /\ log = <<>>
    /\ result = "none"
    /\ fs0 = fs

\* The inputs of create-hyprcursor: the source theme in ~/.icons (missing,
\* without cursors, or with a cursors listing), the destination name (new,
\* or the source itself), leftovers of an earlier run, and the tools found.
HyprInputs ==
    LET Listings ==
          {"left_ptr" :> CursorFile("left_ptr"),
           ("left_ptr" :> CursorFile("left_ptr")) @@ ("arrow" :> LinkNode("left_ptr")),
           ("left_ptr" :> CursorFile("left_ptr")) @@ ("arrow" :> LinkNode("gone"))}
    IN  {BaseFs, (get_icons_dir \o <<"Src">> :> DirNode) @@ WithParents(BaseFs)}
        \cup {WithParents(Theme(get_icons_dir \o <<"Src">>, l)) : l \in Listings}

InitHyprcursor ==
    /\ cmd = "create-hyprcursor"
    /\ LET HyprLeftovers(dest_theme) ==
            (extract_dir \o <<"old">> :> UserFile("old"))
            @@ (output_dir \o <<"theme_" \o dest_theme, "manifest.hl">>
                   :> FileNode(Text("manifest.hl", "", "name = " \o dest_theme, <<>>)))
            @@ (get_icons_dir \o <<dest_theme, "cursors", "old_cursor">>
                   :> CursorFile("old_cursor"))
       IN
       \E input \in HyprInputs, dest \in {"Dst", "Src"}, stale \in BOOLEAN,
          e \in {{}, {"gtk-update-icon-cache"}} :
         /\ args = [source_theme |-> "Src", dest_theme |-> dest]
         /\ env = e
         /\ fs = IF stale THEN input @@ WithParents(HyprLeftovers(dest)) ELSE input
    /\ pc = "start"
    /\ todo = {}
    /\ cur = NoCursor
    /\ log = <<>>
    /\ result = "none"
    /\ fs0 = fs

\* The inputs of add-links: where the cursors are found (the given
\* directory, ./cursors, ./Koosh/cursors, ~/.icons/Koosh/cursors, nowhere),
\* what they are, an earlier theme of the same name, and the tools found.
LinkListings ==
    {<<>>,
     "left_ptr" :> CursorFile("left_ptr"),
     ("help" :> CursorFile("help")) @@ ("question_arrow" :> CursorFile("question_arrow")),
     ("left_ptr" :> CursorFile("left_ptr")) @@ ("arrow" :> LinkNode("left_ptr")),
     ("left_ptr" :> CursorFile("left_ptr")) @@ ("arrow" :> LinkNode("gone"))
         @@ ("sub" :> DirNode)}

LinkSources ==
    {Root \o <<"given">>, Cwd \o <<"cursors">>, Cwd \o <<"Koosh", "cursors">>,
     get_icons_dir \o <<"Koosh", "cursors">>}

InitAddLinks ==
    /\ cmd = "add-links"
    /\ LET AddLinksLeftovers(theme_name) ==
            (Root \o <<theme_name, "cursors", "old_cursor">> :> CursorFile("old_cursor"))
            @@ (get_icons_dir \o <<theme_name, "cursors", "old_cursor">>
                   :> CursorFile("old_cursor"))
       IN
       \E at \in SUBSET LinkSources, l \in LinkListings,
          given \in {NoPath, Root \o <<"given">>}, stale \in BOOLEAN,
          e \in {{}, {"gtk-update-icon-cache"}} :
         /\ Cardinality(at) <= 2
         /\ args = [theme_name |-> "Out", source_dir |-> given]
         /\ env = e
         /\ fs = LET input == WithParents([p \in UNION {DOMAIN InDir(d, l) : d \in at}
                                             |-> IF p \in at THEN DirNode
                                                 ELSE l[FileName(p)]]
                                          @@ BaseFs)
                 IN  IF stale THEN input @@ WithParents(AddLinksLeftovers("Out"))
                     ELSE input
    /\ pc = "start"
    /\ todo = {}
    /\ cur = NoCursor
    /\ log = <<>>
    /\ result = "none"
    /\ fs0 = fs

\* The inputs of rename-cursors: the input directory (missing, a directory
\* of Windows-named cursors, a file, or a directory inside the output
\* theme), an earlier output, and the tools found.
RenameInputs ==
    LET Listings ==
          {<<>>,
           "Normal" :> CursorFile("Normal"),
           ("Normal" :> CursorFile("Normal")) @@ ("Help" :> CursorFile("Help"))
               @@ ("Alternate" :> CursorFile("Alternate")),
           ("Help" :> CursorFile("Help")) @@ ("readme.txt" :> UserFile("readme.txt"))
               @@ ("Normal.cur" :> CursorFile("Normal.cur")),
           ("aero" :> CursorFile("aero")) @@ ("Normal" :> LinkNode("aero"))
               @@ ("Busy" :> LinkNode("gone")) @@ ("Move" :> DirNode)}
    IN  {BaseFs, (Root \o <<"win">> :> UserFile("win")) @@ BaseFs}
        \cup {WithParents(InDir(d, l) @@ BaseFs) :
                 d \in {Root \o <<"win">>, Cwd \o <<"Out", "cursors">>},
                 l \in Listings}

InitRenameCursors ==
    /\ cmd = "rename-cursors"
    /\ LET RenameLeftovers(output_theme) ==
            (Cwd \o <<output_theme, "cursors", "old_cursor">> :> CursorFile("old_cursor"))
            @@ (get_icons_dir \o <<output_theme, "cursors", "old_cursor">>
                   :> CursorFile("old_cursor"))
       IN
       \E input \in RenameInputs,
          dir \in {Root \o <<"win">>, Cwd \o <<"Out", "cursors">>},
          stale \in BOOLEAN, e \in {{}, {"gtk-update-icon-cache"}} :
         /\ args = [input_dir |-> dir, output_theme |-> "Out"]
         /\ env = e
         /\ fs = IF stale THEN input @@ WithParents(RenameLeftovers("Out"))
                 ELSE input
    /\ pc = "start"
    /\ todo = {}
    /\ cur = NoCursor
    /\ log = <<>>
    /\ result = "none"
    /\ fs0 = fs

Init == InitAnimated \/ InitHyprcursor \/ InitAddLinks \/ InitRenameCursors

Next == AnimatedNext \/ HyprcursorNext \/ AddLinksNext \/ RenameCursorsNext

Spec == Init /\ [][Next]_vars

---------------------------------------------------------------------------
\* lib.rs called on its own: one call of a FileUtils or CommandUtils
\* function on a small filesystem or a process outcome.

LibDir == Root \o <<"d">>

\* A directory with a regular file, a link to it, a dangling link, a
\* subdirectory holding a file, and a link to the subdirectory.
LibFs ==
    LET Listing ==
          ("file" :> UserFile("file")) @@ ("valid" :> LinkNode("file"))
          @@ ("dangling" :> LinkNode("gone")) @@ ("sub" :> DirNode)
          @@ ("tosub" :> LinkNode("sub"))
    IN  (LibDir \o <<"sub", "inner">> :> UserFile("inner"))
        @@ InDir(LibDir, Listing) @@ BaseFs

\* The cursor names a hotspot is asked for: every name the arms of
\* get_cursor_hotspot spell out, a name for each prefix, and others.
HotspotNames ==
    {"left_ptr", "not-allowed", "unavailable", "text", "xterm", "ibeam",
     "pointer", "pointing_hand", "hand2", "pencil", "move", "size_ver",
     "help", "wait"}

InitLib ==
    LET Links ==
          {LibDir \o <<n>> :
              n \in {"absent", "file", "valid", "dangling", "sub", "tosub"}}
          \cup {Root \o <<"nodir", "absent">>}
        Froms ==
          {LibDir \o <<n>> :
              n \in {"absent", "file", "valid", "dangling", "sub", "tosub"}}
          \cup {LibDir}
        Tos ==
          {Root \o <<"e">>, Root \o <<"e", "deep">>, LibDir \o <<"sub">>,
           LibDir \o <<"file">>, LibDir \o <<"file", "below">>}
        CommandLines ==
          {[command |-> "xcursorgen", arguments |-> <<"cursor.conf", "cursor">>],
           [command |-> "which", arguments |-> <<"magick">>],
           [command |-> "true", arguments |-> <<>>]}
        \* the four places find_cursor_source looks at, each absent, a
        \* directory or a dangling link
        Places == <<Root \o <<"given">>, Cwd \o <<"cursors">>,
                    Cwd \o <<"Koosh", "cursors">>,
                    get_icons_dir \o <<"Koosh", "cursors">>>>
        Found(kinds) ==
          WithParents([p \in {Places[k] : k \in {j \in 1..4 : kinds[j] # "none"}}
                         |-> IF kinds[CHOOSE k \in 1..4 : Places[k] = p] = "dir"
                             THEN DirNode ELSE LinkNode("gone")]
                      @@ BaseFs)
    IN  /\ \/ /\ cmd = "FileUtils::create_symlink"
              /\ args \in [target : {"file", "gone", "sub"}, link : Links]
              /\ fs = LibFs
           \/ /\ cmd = "FileUtils::copy_dir_recursive"
              /\ args \in [from : Froms, to : Tos]
              /\ fs = LibFs
           \/ /\ cmd = "CommandUtils::run_command"
              /\ args \in CommandLines
              /\ fs = LibFs
           \/ /\ cmd = "get_cursor_hotspot"
              /\ args \in [cursor_name : HotspotNames,
                            si : 1..Len(STANDARD_SIZES)]
              /\ fs = LibFs
           \/ /\ cmd = "find_cursor_source"
              /\ args \in [source_dir : {NoPath, Places[1]}]
              /\ \E kinds \in [1..4 -> {"none", "dir", "link"}] : fs = Found(kinds)
        /\ env = {}
        /\ pc = "start"
        /\ todo = {}
        /\ cur = NoCursor
        /\ log = <<>>
        /\ result = "none"
        /\ fs0 = fs

\* The call returns r; what it returned besides is kept in cur and the
\* process outcome it saw in log.
LibReturn(r, f, value, l) ==
    /\ pc' = "done"
    /\ result' = r
    /\ fs' = f
    /\ cur' = value
    /\ log' = l
    /\ UNCHANGED <<cmd, args, env, todo, fs0>>

\* FileUtils::create_symlink(target, link)
call_create_symlink ==
    /\ cmd = "FileUtils::create_symlink"
    /\ pc = "start"
    /\ IF create_symlink_ok(fs, args.target, args.link)
       THEN LibReturn("Ok", create_symlink(fs, args.target, args.link), NoCursor, log)
       ELSE LibReturn("Err", fs, NoCursor, log)

\* FileUtils::copy_dir_recursive(from, to)
call_copy_dir_recursive ==
    /\ cmd = "FileUtils::copy_dir_recursive"
    /\ pc = "start"
    /\ \E r \in copy_dir_recursive(fs, args.from, args.to) :
         LibReturn(IF r.ok THEN "Ok" ELSE "Err", r.fs, NoCursor, log)

\* CommandUtils::run_command(command, args) on a process ending as o
call_run_command ==
    /\ cmd = "CommandUtils::run_command"
    /\ pc = "start"
    /\ \E o \in Outcomes :
         LET r == run_command(args.command, args.arguments, o)
         IN  LibReturn(IF r.ok THEN "Ok" ELSE "Err", fs, r.err, <<o>>)

\* create_multi_size_cursor, lines 222 and 232-235: the hotspot of the
\* cursor at one standard size, as the config lines of that size carry it.
call_get_cursor_hotspot ==
    /\ cmd = "get_cursor_hotspot"
    /\ pc = "start"
    /\ LET ratios == get_cursor_hotspot(args.cursor_name)
           size == STANDARD_SIZES[args.si]
           hotspot_x == Hotspot(size, ratios[1])
           hotspot_y == Hotspot(size, ratios[2])
       IN  LibReturn("Ok", fs, ConfigLine(size, hotspot_x, hotspot_y, 0), log)

\* find_cursor_source(source_dir); the path found is returned.
call_find_cursor_source ==
    /\ cmd = "find_cursor_source"
    /\ pc = "start"
    /\ LET source == find_cursor_source(fs, args.source_dir)
       IN  LibReturn(IF source = NoPath THEN "Err" ELSE "Ok", fs, source, log)

LibNext ==
    \/ call_find_cursor_source
    \/ call_create_symlink
    \/ call_copy_dir_recursive
    \/ call_run_command
    \/ call_get_cursor_hotspot

LibSpec == InitLib /\ [][LibNext]_vars

---------------------------------------------------------------------------
\* main.rs: the command line and the dispatch to the workflows.

\* enum Commands: the subcommands (the variant name in kebab case) with
\* their options in the order of the fields. An option is
\* #[arg(short, long, default_value = ...)]: the long name is the field in
\* kebab case and the short letter its first letter; default is <<>> for the
\* one option without default_value, whose field is an Option.
Commands ==
    LET Arg(field, long, short, default, optional) ==
            [field |-> field, long |-> long, short |-> short, default |-> default,
             optional |-> optional]
    IN
    <<[variant |-> "AddLinks", name |-> "add-links",
       options |-> <<Arg("theme_name", "theme-name", "t", <<"Koosh-Complete">>, FALSE),
                     Arg("source_dir", "source-dir", "s", <<>>, TRUE)>>],
      [variant |-> "CreateAnimated", name |-> "create-animated",
       options |-> <<Arg("input_theme", "input-theme", "i", <<"Koosh-X11">>, FALSE),
                     Arg("output_theme", "output-theme", "o", <<"Koosh-Animated">>, FALSE)>>],
      [variant |-> "CreateHyprcursor", name |-> "create-hyprcursor",
       options |-> <<Arg("source_theme", "source-theme", "s", <<"Koosh-Animated">>, FALSE),
                     Arg("dest_theme", "dest-theme", "d", <<"Koosh-Hyprcursor2">>, FALSE)>>],
      [variant |-> "RenameCursors", name |-> "rename-cursors",
       options |-> <<Arg("input_dir", "input-dir", "i", <<"output">>, FALSE),
                     Arg("output_theme", "output-theme", "o", <<"Koosh-X11">>, FALSE)>>]>>

RECURSIVE ParseOptions(_, _, _)
\* The options of one subcommand read from the tokens after its name: each
\* is "--<long>" or "-<short>" followed by its value; an unknown option, a
\* missing value and an option given twice are errors. given[k] is <<>> or
\* the value given for option k.
ParseOptions(options, tokens, given) ==
    IF tokens = <<>> THEN [ok |-> TRUE, given |-> given]
    ELSE LET hit == {k \in DOMAIN options :
                        tokens[1] \in {"--" \o options[k].long,
                                       "-" \o options[k].short}}
         IN  IF hit = {} \/ Len(tokens) < 2 THEN [ok |-> FALSE, given |-> given]
             ELSE LET k == CHOOSE x \in hit : TRUE
                  IN  IF given[k] # <<>> THEN [ok |-> FALSE, given |-> given]
                      ELSE ParseOptions(options, SubSeq(tokens, 3, Len(tokens)),
                                        [given EXCEPT ![k] = <<tokens[2]>>])

\* Cli::parse on the arguments after the program name: the subcommand named
\* first, with every field set from the command line or from its default; an
\* Option field is None (<<>>) or Some(v) (<<v>>).
Cli_parse(argv) ==
    LET named == {c \in DOMAIN Commands :
                     argv # <<>> /\ Commands[c].name = argv[1]}
    IN  IF named = {} THEN [ok |-> FALSE, variant |-> "", values |-> <<>>]
        ELSE LET c == Commands[CHOOSE x \in named : TRUE]
                 r == ParseOptions(c.options, SubSeq(argv, 2, Len(argv)),
                                   [k \in DOMAIN c.options |-> <<>>])
                 Value(k) ==
                   IF c.options[k].optional THEN r.given[k]
                   ELSE IF r.given[k] # <<>> THEN r.given[k][1]
                   ELSE c.options[k].default[1]
             IN  [ok |-> r.ok, variant |-> c.variant,
                  values |-> [k \in DOMAIN c.options |-> Value(k)]]

\* A variant of Dispatch whose CreateAnimated arm passes the two themes in
\* each other's place.
Dispatch_SwappingThemes(command) ==
    IF command.variant = "AddLinks"
    THEN [workflow |-> "add_missing_links",
          args |-> [theme_name |-> command.values[1],
                    source_dir |-> command.values[2]]]
    ELSE IF command.variant = "CreateAnimated"
    THEN [workflow |-> "create_animated_theme",
          args |-> [input_theme |-> command.values[2],
                    output_theme |-> command.values[1]]]
    ELSE IF command.variant = "CreateHyprcursor"
    THEN [workflow |-> "create_hyprcursor_theme",
          args |-> [source_theme |-> command.values[1],
                    dest_theme |-> command.values[2]]]
    ELSE [workflow |-> "rename_cursors",
          args |-> [input_dir |-> command.values[1],
                    output_theme |-> command.values[2]]]

\* main, lines 71-103: the match on the subcommand; each arm moves the
\* fields into the workflow's argument struct and calls the workflow.
Dispatch(command) ==
    IF command.variant = "AddLinks"
    THEN [workflow |-> "add_missing_links",
          args |-> [theme_name |-> command.values[1],
                    source_dir |-> command.values[2]]]
    ELSE IF command.variant = "CreateAnimated"
    THEN [workflow |-> "create_animated_theme",
          args |-> [input_theme |-> command.values[1],
                    output_theme |-> command.values[2]]]
    ELSE IF command.variant = "CreateHyprcursor"
    THEN [workflow |-> "create_hyprcursor_theme",
          args |-> [source_theme |-> command.values[1],
                    dest_theme |-> command.values[2]]]
    ELSE [workflow |-> "rename_cursors",
          args |-> [input_dir |-> command.values[1],
                    output_theme |-> command.values[2]]]

\* The command lines tried: every subcommand with each option left out or
\* given by its long or its short name, in either order, and lines clap
\* rejects (no subcommand, an unknown one, another subcommand's option, an
\* option twice, an option without value).
InitCli ==
    LET Values == {"A", "B"}
        Uses(o) == {<<>>} \cup {<<"--" \o o.long, v>> : v \in Values}
                          \cup {<<"-" \o o.short, v>> : v \in Values}
        Tried(c) == UNION {{<<c.name>> \o a \o b, <<c.name>> \o b \o a} :
                               a \in Uses(c.options[1]), b \in Uses(c.options[2])}
        Good == UNION {Tried(Commands[c]) : c \in DOMAIN Commands}
        Bad == {<<>>, <<"install">>, <<"add-links", "--output-theme", "A">>,
                <<"rename-cursors", "-o", "A", "--output-theme", "B">>,
                <<"create-animated", "-i">>}
    IN  /\ cmd = "main"
        /\ args \in Good \cup Bad
        /\ pc = "parse"
        /\ fs = BaseFs
        /\ env = {}
        /\ todo = {}
        /\ cur = NoCursor
        /\ log = <<>>
        /\ result = "none"
        /\ fs0 = fs

\* main, line 69: Cli::parse; on a command line it rejects clap prints the
\* error and exits before any workflow is called.
main_parse ==
    /\ cmd = "main"
    /\ pc = "parse"
    /\ LET cli == Cli_parse(args)
       IN  IF cli.ok
           THEN /\ pc' = "match"
                /\ cur' = cli
                /\ UNCHANGED result
           ELSE /\ pc' = "done"
                /\ cur' = NoCursor
                /\ result' = "Err"
    /\ UNCHANGED <<cmd, args, env, fs, todo, log, fs0>>

\* main, lines 71-103: the workflow of the subcommand is called with its
\* arguments; log takes the call.
main_match ==
    /\ cmd = "main"
    /\ pc = "match"
    /\ pc' = "called"
    /\ log' = Append(log, Dispatch(cur))
    /\ UNCHANGED <<cmd, args, env, fs, todo, cur, result, fs0>>

CliNext ==
    \/ main_parse
    \/ main_match

CliSpec == InitCli /\ [][CliNext]_vars

---------------------------------------------------------------------------
\* Properties.

\* process_cursor_files of create-animated has just returned Ok.
AnimatedProcessingDone ==
    cmd = "create-animated" /\ pc = "create_additional_symlinks" /\ cur.si = 0

\* The processing of a regular cursor file is under way or has just ended:
\* the log starts with the extraction of its frames.
ExtractionLogged == Len(log) >= 1 /\ log[1].tool = "xcur2png"

\* Whether the log holds a run of tool on subject that ended with status.
Logged(tool, subject, status) ==
    \E j \in 1..Len(log) :
        log[j] = [tool |-> tool, subject |-> subject, status |-> status]

\* C1: in create-animated, once the processing of the cursors has returned
\* Ok, every regular (non-symlink) file of the input cursors directory has a
\* file of the same name in the output cursors directory (the original,
\* where regeneration failed).
C1_EveryCursorHasOutput ==
    AnimatedProcessingDone =>
        \A p \in Children(fs, animated_input_cursors) :
            fs[p].kind = "file" =>
                IsFile(fs, animated_output_cursors \o <<FileName(p)>>)

\* C2: in create-animated, when xcur2png cannot be started, exits non-zero,
\* or exits zero leaving no file <cursor>_*.png, the cursor's processing ends
\* there without an error: the original file is at
\* <output theme>/cursors/<cursor>, nothing else was run for the cursor, and
\* the loop goes on with the entries left; and xcursorgen is only ever run
\* for a cursor whose extraction exited zero and left frames.
C2_FailedExtractionCopiesOriginal ==
    (cmd = "create-animated" /\ ExtractionLogged) =>
        LET cursor_name == log[1].subject
            temp == animated_temp_dir \o <<cursor_name>>
            failed == \/ log[1].status # "zero"
                      \/ count_extracted_frames(fs, temp, cursor_name) = 0
        IN  /\ failed =>
                /\ Len(log) = 1
                /\ result = "none"
                /\ pc = AfterEntry(todo)
                /\ IsFile(fs, animated_input_cursors \o <<cursor_name>>)
                /\ animated_output_cursors \o <<cursor_name>> \in DOMAIN fs
                /\ fs[animated_output_cursors \o <<cursor_name>>]
                     = FileNode(fs[animated_input_cursors \o <<cursor_name>>].data)
            /\ (\E j \in 1..Len(log) : log[j].tool = "xcursorgen") => ~failed

\* C2 happens: xcur2png could not be started for a cursor, the original is
\* in the output theme, and another entry is still to be processed.
C2_Witness ==
    /\ cmd = "create-animated"
    /\ log = <<[tool |-> "xcur2png", subject |-> "left_ptr", status |-> "spawn_error"]>>
    /\ pc = "process_entry"
    /\ todo # {}
    /\ IsFile(fs, animated_output_cursors \o <<"left_ptr">>)

\* C3: an artifact of an external tool is put into place only after the tool
\* exited zero: while a cursor is processed, its generated cursor is in the
\* output cursors directory only if xcursorgen exited zero for it (and its
\* output file is there when it is copied), and each config line of a scaled
\* frame follows a scaler run on that frame that exited zero; the hyprcursor
\* bundle is in ~/.icons/<dest> only if hyprcursor-util --extract and
\* hyprcursor-util --create both exited zero.
C3_ArtifactsOnlyAfterZeroExit ==
    /\ (cmd = "create-animated" /\ ExtractionLogged) =>
          LET cursor_name == log[1].subject
              dest == animated_output_cursors \o <<cursor_name>>
          IN  /\ (dest \in DOMAIN fs /\ fs[dest].data.src = "xcursorgen") =>
                     Logged("xcursorgen", cursor_name, "zero")
              /\ pc = "verify" =>
                     /\ IsFile(fs, working_dir \o <<"cursor">>)
                     /\ fs[dest] = fs[working_dir \o <<"cursor">>]
              /\ \A i \in 1..Len(cur.config) :
                     cur.config[i].size # cur.orig_size =>
                         \/ Logged("magick", cur.config[i].file, "zero")
                         \/ Logged("convert", cur.config[i].file, "zero")
    /\ cmd = "create-hyprcursor" =>
          ((\E p \in Under(fs, hypr_user_theme_dir) :
                fs[p].kind = "file" /\ fs[p].data.src \in {"hlc", "manifest.hl"})
           => /\ Logged("hyprcursor-util", "--extract", "zero")
              /\ Logged("hyprcursor-util", "--create", "zero"))

\* C3 happens: a generated cursor with a scaled frame has been copied into
\* the output theme.
C3_Witness ==
    /\ cmd = "create-animated"
    /\ pc = "verify"
    /\ \E i \in 1..Len(cur.config) : cur.config[i].size # cur.orig_size
    /\ fs[animated_output_cursors \o <<cur.name>>].data.src = "xcursorgen"

\* The eight steps of create-hyprcursor, by the position that runs them.
HyprSteps ==
    <<"start", "update_manifest", "create_hyprcursor", "install_hyprcursor_theme",
      "copy_x11_cursors", "create_hyprcursor_config", "update_icon_cache", "cleanup">>

\* The number of the step position p runs (0: none, the command has returned).
HyprStepOf(p) ==
    IF \E k \in 1..Len(HyprSteps) : HyprSteps[k] = p
    THEN CHOOSE k \in 1..Len(HyprSteps) : HyprSteps[k] = p
    ELSE 0

\* What shows in a step of the model that step k of create-hyprcursor did
\* its work: the tool it ran exited zero, the file it needed was there, what
\* it had to copy or write is in place.
HyprStepSucceeded(k) ==
    CASE k = 1 ->
           log' = <<[tool |-> "hyprcursor-util", subject |-> "--extract",
                     status |-> "zero"]>>
      [] k = 2 -> Exists(fs, manifest_path) /\ IsFile(fs', manifest_path)
      [] k = 3 ->
           log' = Append(log, [tool |-> "hyprcursor-util", subject |-> "--create",
                               status |-> "zero"])
      [] k = 4 ->
           /\ Exists(fs', theme_output_dir)
           /\ \A p \in Under(fs', theme_output_dir) :
                  hypr_user_theme_dir \o Rel(theme_output_dir, p) \in DOMAIN fs'
      [] k = 5 ->
           \A p \in Children(fs, cursors_dir(hypr_source_path)) :
               Exists(fs', cursors_dir(hypr_user_theme_dir) \o <<FileName(p)>>)
      [] k = 6 ->
           /\ IsFile(fs', hypr_user_theme_dir \o <<"index.theme">>)
           /\ IsFile(fs', hypr_user_theme_dir \o <<"cursor.theme">>)
      [] OTHER -> TRUE

\* C4: create-hyprcursor runs its eight steps in the order extract source
\* theme, update manifest, create bundle, install, copy X11 cursors, write
\* index.theme/cursor.theme, update icon cache, clean up: a step of the
\* command either passes from step k to step k+1 after step k did its work,
\* or returns Ok from the last step, or returns Err from a step that failed;
\* once it has returned nothing more is executed.
C4_StepsInOrder ==
    [][cmd = "create-hyprcursor" =>
         LET k == HyprStepOf(pc)
         IN  /\ k # 0
             /\ \/ /\ k < Len(HyprSteps)
                   /\ pc' = HyprSteps[k + 1]
                   /\ result' = "none"
                   /\ HyprStepSucceeded(k)
                \/ /\ k = Len(HyprSteps)
                   /\ pc' = "done"
                   /\ result' = "Ok"
                \/ /\ pc' = "done"
                   /\ result' = "Err"
                   /\ ~HyprStepSucceeded(k)]_vars

\* C4 happens: hyprcursor-util --create failed after a successful
\* extraction, the command returned the error, and the theme installed
\* earlier under the destination name was not touched.
C4_Witness ==
    /\ cmd = "create-hyprcursor"
    /\ pc = "done"
    /\ result = "Err"
    /\ Len(log) = 2
    /\ log[1].status = "zero"
    /\ log[2] = [tool |-> "hyprcursor-util", subject |-> "--create",
                 status |-> "nonzero"]
    /\ IsFile(fs, hypr_user_theme_dir \o <<"cursors", "old_cursor">>)

\* C5: once a workflow that created a temporary working directory has
\* returned, with Ok or with Err, the directory is gone: koosh_animated_temp
\* for create-animated (created by its first step), koosh_extract and
\* koosh_hyprcursor for create-hyprcursor (created by its first and its
\* third step).
C5_TemporaryDirectoriesRemoved ==
    [][pc' = "done" =>
         /\ (cmd = "create-animated" /\ pc # "start") =>
                ~Exists(fs', animated_temp_dir)
         /\ cmd = "create-hyprcursor" =>
                /\ ~Exists(fs', extract_dir)
                /\ HyprStepOf(pc) >= 3 => ~Exists(fs', output_dir)]_vars

\* The compatibility-symlink pass is running.
InSymlinkPass ==
    \/ cmd = "create-animated" /\ pc = "create_additional_symlinks"
    \/ cmd = "add-links" /\ pc = "create_cursor_symlinks"
    \/ cmd = "rename-cursors" /\ pc = "create_compatibility_symlinks"

\* The cursors directory the pass works on.
PassDir ==
    IF cmd = "create-animated" THEN animated_output_cursors
    ELSE IF cmd = "add-links" THEN add_links_cursors_dir
    ELSE rename_cursors_dir

\* The entries a step puts into the filesystem or changes.
Touched == {p \in DOMAIN fs' : p \notin DOMAIN fs \/ fs'[p] # fs[p]}

\* A step of the pass touches the filesystem only to create one alias link
\* of the table, at a place where free(L) holds, to a target that exists;
\* it removes nothing, and the new link resolves.
PassCreatesOnly(free(_)) ==
    (InSymlinkPass /\ fs' # fs) =>
        /\ DOMAIN fs \subseteq DOMAIN fs'
        /\ \E L \in Touched :
             /\ Touched = {L}
             /\ free(L)
             /\ \E i \in 1..Len(get_cursor_symlinks) :
                  /\ L = PassDir \o <<get_cursor_symlinks[i][2]>>
                  /\ fs'[L] = LinkNode(get_cursor_symlinks[i][1])
                  /\ Exists(fs, PassDir \o <<get_cursor_symlinks[i][1]>>)
             /\ Exists(fs', L)

\* Nothing is at L.
NothingAt(L) == L \notin DOMAIN fs

\* Nothing is at L, or a symbolic link that does not resolve.
NothingResolvesAt(L) == L \notin DOMAIN fs \/ (IsSymlink(fs, L) /\ ~Exists(fs, L))

RenameProcessingDone ==
    cmd = "rename-cursors" /\ pc = "create_compatibility_symlinks" /\ cur.si = 0

\* The Windows-to-X11 table maps no two names to the same X11 name.
MappingInjective ==
    \A a, b \in DOMAIN get_windows_to_x11_mapping :
        get_windows_to_x11_mapping[a] = get_windows_to_x11_mapping[b] => a = b

\* Once process_cursor_files has returned Ok, the output cursors directory
\* holds exactly one regular file per input entry in `mapped`, under the
\* entry's X11 name and with the contents behind the entry.
RenamedExactly(mapped) ==
    LET produced == Children(fs, rename_cursors_dir)
    IN  /\ \A q \in mapped :
              LET out == rename_cursors_dir
                             \o <<get_windows_to_x11_mapping[FileName(q)]>>
              IN  /\ out \in produced
                  /\ fs[out] = FileNode(fs[Follow(fs, q, MaxHops)].data)
        /\ \A out \in produced :
              \E q \in mapped :
                  FileName(out) = get_windows_to_x11_mapping[FileName(q)]
        /\ Cardinality(produced) = Cardinality(mapped)

\* C7 as stated: rename-cursors copies each regular file of the input
\* directory whose name is a key of the Windows-to-X11 mapping to
\* <output theme>/cursors/<X11 name> and produces nothing for any other
\* entry; the mapping is injective, and the number of cursor files produced
\* equals the number of mapped input files.
C7_RegularMappedFilesCopied ==
    /\ MappingInjective
    /\ RenameProcessingDone =>
           RenamedExactly({q \in Children(fs, args.input_dir) :
                              /\ fs[q].kind = "file"
                              /\ FileName(q) \in DOMAIN get_windows_to_x11_mapping})

\* C7, amended: rename-cursors copies each entry of the input directory that
\* is a regular file or a symbolic link resolving to one, and whose name is
\* a key of the Windows-to-X11 mapping, to <output theme>/cursors/<X11 name>
\* as a regular file, and produces nothing for any other entry; the mapping
\* is injective, and the number of cursor files produced equals the number
\* of such entries.
C7_MappedFilesCopied ==
    /\ MappingInjective
    /\ RenameProcessingDone =>
           RenamedExactly({q \in Children(fs, args.input_dir) :
                              /\ IsFile(fs, q)
                              /\ FileName(q) \in DOMAIN get_windows_to_x11_mapping})

\* C7 happens: the input held the link Normal -> aero, a dangling link and a
\* directory with mapped names; left_ptr is a regular file with the contents
\* of aero and the only file produced.
C7_Witness ==
    /\ RenameProcessingDone
    /\ IsSymlink(fs, args.input_dir \o <<"Normal">>)
    /\ IsSymlink(fs, args.input_dir \o <<"Busy">>)
    /\ Children(fs, rename_cursors_dir) = {rename_cursors_dir \o <<"left_ptr">>}
    /\ fs[rename_cursors_dir \o <<"left_ptr">>] = CursorFile("aero")

\* A call of the library function f is returning r.
LibCall(f, r) == cmd = f /\ pc = "start" /\ pc' = "done" /\ result' = r

\* C8: after FileUtils::create_symlink(target, link) returns Ok, link is a
\* symbolic link whose stored target is `target` and no other entry has
\* changed; it returns Ok when link was absent, a regular file, a valid
\* symlink or a dangling symlink (in an existing directory), whether or not
\* the target exists.
C8_CreateSymlinkOverwrites ==
    [][/\ LibCall("FileUtils::create_symlink", "Ok") =>
             /\ DOMAIN fs' = DOMAIN fs \cup {args.link}
             /\ fs'[args.link] = LinkNode(args.target)
             /\ \A p \in DOMAIN fs \ {args.link} : fs'[p] = fs[p]
       /\ (/\ cmd = "FileUtils::create_symlink"
           /\ pc = "start"
           /\ IsDir(fs, Parent(args.link))
           /\ args.link \in DOMAIN fs => fs[args.link].kind \in {"file", "link"})
          => result' = "Ok"]_vars

\* C8 happens: a regular file was replaced by a link to a target that does
\* not exist.
C8_Witness ==
    /\ cmd = "FileUtils::create_symlink"
    /\ pc = "done"
    /\ result = "Ok"
    /\ args = [target |-> "gone", link |-> LibDir \o <<"file">>]
    /\ fs[LibDir \o <<"file">>] = LinkNode("gone")
    /\ ~Exists(fs, LibDir \o <<"file">>)

\* C9: FileUtils::copy_dir_recursive(from, to) returns an error when `from`
\* does not exist (nothing is there, or a dangling link) and then leaves the
\* filesystem as it was: `to` is not created and nothing is copied.
C9_MissingSourceChangesNothing ==
    [][(/\ cmd = "FileUtils::copy_dir_recursive"
        /\ pc = "start"
        /\ ~Exists(fs, args.from))
       => result' = "Err" /\ fs' = fs]_vars

\* C9 happens: the copy of a missing directory to a new place has returned
\* an error and the place is still not there.
C9_Witness ==
    /\ cmd = "FileUtils::copy_dir_recursive"
    /\ pc = "done"
    /\ result = "Err"
    /\ args = [from |-> LibDir \o <<"absent">>, to |-> Root \o <<"e">>]
    /\ Root \o <<"e">> \notin DOMAIN fs

\* C10: CommandUtils::run_command returns Ok exactly when the process could
\* be started and exited with status zero; when it was started and did not
\* exit zero the error is CommandFailed with the command followed by its
\* arguments, separated by blanks, and the text of the captured stderr
\* (bytes that are not UTF-8 replaced by U+FFFD); when it could not be
\* started the error is another one.
C10_RunCommandResult ==
    (cmd = "CommandUtils::run_command" /\ pc = "done") =>
        LET o == log[1]
        IN  /\ result = "Ok" <=> (o.started /\ o.code = 0)
            /\ result \in {"Ok", "Err"}
            /\ (o.started /\ o.code # 0) =>
                   /\ cur.kind = "CommandFailed"
                   /\ cur.command
                        = Join(<<args.command>> \o args.arguments, " ")
                          \o (IF args.arguments = <<>> THEN " " ELSE "")
                   /\ cur.error
                        = (IF o.stderr = <<>> THEN ""
                           ELSE IF o.stderr = <<"boom">> THEN "boom"
                           ELSE "bo" \o ReplacementCharacter \o "om")
            /\ ~o.started => result = "Err" /\ cur.kind # "CommandFailed"

\* C10 happens: a started process exited with status 2 and run_command
\* returned CommandFailed with the command line and the stderr text.
C10_Witness ==
    /\ cmd = "CommandUtils::run_command"
    /\ pc = "done"
    /\ result = "Err"
    /\ log[1].started
    /\ log[1].code = 2
    /\ cur.kind = "CommandFailed"
    /\ cur.command = "xcursorgen cursor.conf cursor"
    /\ cur.error = "boom"

\* The hotspot call has returned for one of the given cursor names.
HotspotOf(names) ==
    cmd = "get_cursor_hotspot" /\ pc = "done" /\ args.cursor_name \in names

\* The pixel coordinates of the tip of "left_ptr" at the six standard sizes:
\* an eighth of the size, 24 -> 3, 32 -> 4, 48 -> 6, 64 -> 8, 72 -> 9, 96 -> 12.
LeftPtrTip == <<3, 4, 6, 8, 9, 12>>

\* C11: at every standard size the hotspot coordinates computed for
\* "not-allowed", "unavailable" and "left_ptr" are identical: each is the
\* pixel of the tip of "left_ptr" at that size, on both axes.
C11_SameHotspotAsLeftPtr ==
    HotspotOf({"left_ptr", "not-allowed", "unavailable"}) =>
        /\ cur.size = STANDARD_SIZES[args.si]
        /\ cur.hotspot_x = LeftPtrTip[args.si]
        /\ cur.hotspot_y = LeftPtrTip[args.si]

\* C11 happens: the hotspot of "unavailable" at size 72 was computed as (9, 9).
C11_Witness ==
    /\ HotspotOf({"unavailable"})
    /\ cur.size = 72
    /\ cur.hotspot_x = 9
    /\ cur.hotspot_y = 9

\* C17: the hotspot computed for any cursor name at a standard size S is a
\* pixel offset inside the image: the ratios are (1/8, 1/8), (3/10, 1/8) or
\* (1/2, 1/2), the coordinates are hx = max(1, floor(S*rx)) and
\* hy = max(1, floor(S*ry)), 1 <= hx < S and 1 <= hy < S, and they are not
\* smaller than the coordinates of the same name at any smaller standard size.
C17_HotspotInsideImage ==
    HotspotOf(HotspotNames) =>
        LET S == STANDARD_SIZES[args.si]
            ratios == get_cursor_hotspot(args.cursor_name)
            Floor(r) == CHOOSE k \in 0..S : k * r.den <= S * r.num
                                            /\ S * r.num < (k + 1) * r.den
            Max(a, b) == IF a >= b THEN a ELSE b
        IN  /\ ratios \in {<<Ratio(1, 8), Ratio(1, 8)>>,
                           <<Ratio(3, 10), Ratio(1, 8)>>,
                           <<Ratio(1, 2), Ratio(1, 2)>>}
            /\ cur.size = S
            /\ cur.hotspot_x = Max(1, Floor(ratios[1]))
            /\ cur.hotspot_y = Max(1, Floor(ratios[2]))
            /\ 1 <= cur.hotspot_x /\ cur.hotspot_x < S
            /\ 1 <= cur.hotspot_y /\ cur.hotspot_y < S
            /\ \A sj \in 1..args.si :
                 /\ Hotspot(STANDARD_SIZES[sj], ratios[1]) <= cur.hotspot_x
                 /\ Hotspot(STANDARD_SIZES[sj], ratios[2]) <= cur.hotspot_y

\* C17 happens: the hotspot of "pointer" (ratios 3/10 and 1/8) at size 24
\* was computed as (7, 3).
C17_Witness ==
    /\ HotspotOf({"pointer"})
    /\ cur.size = 24
    /\ cur.hotspot_x = 7
    /\ cur.hotspot_y = 3

\* The xcursorgen config written for the cursor whose frames are in
\* directory d, and the lines it holds.
ConfigFile(d) == d \o <<"working", "cursor.config">>
ConfigLines(d) == fs[ConfigFile(d)].data.lines

ThemeFileNames(dir, file, name) ==
    LET p == dir \o <<file>>
    IN  /\ p \in DOMAIN fs
        /\ fs[p].kind = "file"
        /\ fs[p].data.src = file
        /\ fs[p].data.name = name

\* dir/cursors is a directory holding every entry name that `built` holds.
HoldsEntriesOf(dir, built) ==
    /\ IsDir(fs, cursors_dir(dir))
    /\ \A p \in Children(fs, built) :
         cursors_dir(dir) \o <<FileName(p)>> \in DOMAIN fs

\* C13: after a workflow has returned success, ~/.icons/<output theme name>
\* holds index.theme and cursor.theme, both with Name=<output theme name>;
\* after add-links, create-animated and rename-cursors it also holds a
\* cursors directory with every entry name of the built theme's cursors
\* directory.
C13_InstalledThemeComplete ==
    (pc = "done" /\ result = "Ok") =>
        /\ cmd = "create-animated" =>
             /\ ThemeFileNames(animated_user_icons_dir, "index.theme", args.output_theme)
             /\ ThemeFileNames(animated_user_icons_dir, "cursor.theme", args.output_theme)
             /\ HoldsEntriesOf(animated_user_icons_dir, animated_output_cursors)
        /\ cmd = "add-links" =>
             /\ ThemeFileNames(add_links_user_theme_dir, "index.theme", args.theme_name)
             /\ ThemeFileNames(add_links_user_theme_dir, "cursor.theme", args.theme_name)
             /\ HoldsEntriesOf(add_links_user_theme_dir, add_links_cursors_dir)
        /\ cmd = "rename-cursors" =>
             /\ ThemeFileNames(rename_user_theme_dir, "index.theme", args.output_theme)
             /\ ThemeFileNames(rename_user_theme_dir, "cursor.theme", args.output_theme)
             /\ HoldsEntriesOf(rename_user_theme_dir, rename_cursors_dir)
        /\ cmd = "create-hyprcursor" =>
             /\ ThemeFileNames(hypr_user_theme_dir, "index.theme", args.dest_theme)
             /\ ThemeFileNames(hypr_user_theme_dir, "cursor.theme", args.dest_theme)

\* C13 happens: create-animated returned success and the installed theme
\* holds both theme files and the cursor left_ptr with its alias arrow, the
\* entries of the built theme.
C13_Witness ==
    /\ cmd = "create-animated"
    /\ pc = "done"
    /\ result = "Ok"
    /\ {"left_ptr", "arrow"}
         \subseteq {FileName(p) : p \in Children(fs, animated_output_cursors)}
    /\ {FileName(p) : p \in Children(fs, cursors_dir(animated_user_icons_dir))}
         = {FileName(p) : p \in Children(fs, animated_output_cursors)}
    /\ ThemeFileNames(animated_user_icons_dir, "index.theme", "Out")
    /\ ThemeFileNames(animated_user_icons_dir, "cursor.theme", "Out")

\* C14: the command line has exactly the four subcommands add-links,
\* create-animated, create-hyprcursor and rename-cursors; within each the
\* long names and the short letters of the options are pairwise distinct;
\* every option but --source-dir of add-links has a default; and for every
\* accepted command line main calls the workflow of the subcommand named,
\* once, each argument being the value given on the command line (by the
\* long or the short name) or else the default (None for --source-dir).
\* A rejected command line calls no workflow.
C14_CliWellFormedAndDispatch ==
    cmd = "main" =>
        LET Own == [c \in DOMAIN Commands |->
                      <<"add_missing_links", "create_animated_theme",
                        "create_hyprcursor_theme", "rename_cursors">>[c]]
            Passed(o) ==
              LET at == {k \in 2..(Len(args) - 1) :
                            args[k] \in {"--" \o o.long, "-" \o o.short}}
                  k == CHOOSE x \in at : TRUE
              IN  IF o.optional
                  THEN (IF at = {} THEN <<>> ELSE <<args[k + 1]>>)
                  ELSE (IF at = {} THEN o.default[1] ELSE args[k + 1])
        IN  /\ [c \in DOMAIN Commands |-> Commands[c].name]
                 = <<"add-links", "create-animated", "create-hyprcursor",
                     "rename-cursors">>
            /\ \A c \in DOMAIN Commands :
                 \A j, k \in DOMAIN Commands[c].options :
                   LET a == Commands[c].options[j]
                       b == Commands[c].options[k]
                   IN  /\ j # k => /\ a.long # b.long
                                   /\ a.short # b.short
                                   /\ a.field # b.field
                       /\ (a.default = <<>>)
                            <=> (Commands[c].name = "add-links"
                                 /\ a.long = "source-dir")
                       /\ a.optional <=> (a.default = <<>>)
            /\ pc = "called" =>
                 /\ Len(log) = 1
                 /\ \E c \in DOMAIN Commands :
                      /\ args[1] = Commands[c].name
                      /\ log[1].workflow = Own[c]
                      /\ DOMAIN log[1].args
                           = {Commands[c].options[k].field :
                                 k \in DOMAIN Commands[c].options}
                      /\ \A k \in DOMAIN Commands[c].options :
                           log[1].args[Commands[c].options[k].field]
                             = Passed(Commands[c].options[k])
            /\ pc # "called" => log = <<>>

\* C14 happens: for "create-animated -o B" main called create_animated_theme
\* with the default input theme and the output theme B.
C14_Witness ==
    /\ cmd = "main"
    /\ pc = "called"
    /\ args = <<"create-animated", "-o", "B">>
    /\ log = <<[workflow |-> "create_animated_theme",
                args |-> [input_theme |-> "Koosh-X11", output_theme |-> "B"]]>>

\* The step of the processing of a cursor that a logged tool run belongs to:
\* 1 frame extraction, 2 the original size, 3 scaling, 5 cursor-binary
\* regeneration, 7 verification (4 is the writing of the config and 6 the
\* copy into the theme, which run no tool), 8 anything after the cursors.
StepOf(e) ==
    IF e.tool = "xcur2png" /\ e.subject # "cursor" THEN 1
    ELSE IF e.tool = "identify" THEN 2
    ELSE IF e.tool \in {"magick", "convert"} THEN 3
    ELSE IF e.tool = "xcursorgen" THEN 5
    ELSE IF e.tool = "xcur2png" THEN 7
    ELSE 8

\* The generated cursor of cursor_name is in the output cursors directory of
\* filesystem f.
GeneratedAt(f, cursor_name) ==
    LET dest == animated_output_cursors \o <<cursor_name>>
    IN  dest \in DOMAIN f /\ f[dest].data.src = "xcursorgen"

C16_SizeFallback ==
    [][(cmd = "create-animated" /\ pc = "create_multi_size_cursor") =>
          /\ result' # "Err"
          /\ pc' = "scale"
          /\ cur'.orig_size \in {32, 50, 48}
          /\ (Len(log') = Len(log) \/ log'[Len(log')].status # "zero")
                => cur'.orig_size = 48]_vars

\* C18: updating the GTK icon cache is optional. In every workflow the step
\* leaves the result open and the filesystem as it is, and goes on to the
\* step that follows it (the cleanup in create-animated and
\* create-hyprcursor), whether gtk-update-icon-cache is absent (it is then
\* not run), cannot be run, exits non-zero or exits zero; and the cleanup
\* that follows can be executed.
C18_IconCacheOptional ==
    /\ [][(cmd \in {"create-animated", "create-hyprcursor", "add-links",
                    "rename-cursors"}
           /\ pc = "update_icon_cache") =>
             /\ pc' = (IF cmd = "create-animated" THEN "clean_up"
                       ELSE IF cmd = "create-hyprcursor" THEN "cleanup"
                       ELSE IF cmd = "add-links" THEN "finish"
                       ELSE "list_cursor_files")
             /\ result' = "none"
             /\ fs' = fs
             /\ UNCHANGED <<cmd, args, env, todo, cur>>
             /\ IF "gtk-update-icon-cache" \in env
                THEN /\ Len(log') = Len(log) + 1
                     /\ log'[Len(log')].tool = "gtk-update-icon-cache"
                ELSE log' = log]_vars
    /\ []((cmd = "create-animated" /\ pc = "clean_up") => ENABLED animated_clean_up)
    /\ []((cmd = "create-hyprcursor" /\ pc = "cleanup") => ENABLED cleanup)

\* C18 happens: gtk-update-icon-cache exited non-zero in create-hyprcursor,
\* and the cleanup ran and the workflow returned Ok.
C18_Witness ==
    /\ cmd = "create-hyprcursor"
    /\ pc = "done"
    /\ result = "Ok"
    /\ log[Len(log)].tool = "gtk-update-icon-cache"
    /\ log[Len(log)].status = "nonzero"
    /\ ~Exists(fs, extract_dir)
    /\ ~Exists(fs, output_dir)

\* C19: update_manifest rewrites exactly the lines of manifest.hl that start
\* with "name = ", "description = " or "version = " (to the destination
\* name, the fixed description and "1.0") and keeps every other line; the
\* number and the order of the lines are preserved; applying it again with
\* the same destination name changes nothing; and afterwards every
\* "name = " line names the destination theme.
C19_UpdateManifestLineWise ==
    [][(cmd = "create-hyprcursor" /\ pc = "update_manifest"
        /\ pc' = "create_hyprcursor") =>
          LET before == Lines(fs[manifest_path].data.note)
              written == fs'[manifest_path].data.note
              after == Lines(written)
              Rewritten(line) ==
                IF StartsWith(line, "name = ")
                THEN "name = " \o args.dest_theme
                ELSE IF StartsWith(line, "description = ")
                THEN "description = Koosh cursor theme with hyprcursor support for Wayland"
                ELSE IF StartsWith(line, "version = ") THEN "version = 1.0"
                ELSE line
          IN  /\ Len(after) = Len(before)
              /\ \A i \in DOMAIN before : after[i] = Rewritten(before[i])
              /\ update_manifest_content(written, args.dest_theme) = written
              /\ \A i \in DOMAIN after :
                   StartsWith(after[i], "name = ")
                     => after[i] = "name = " \o args.dest_theme]_vars

\* C20: find_cursor_source returns the first that exists of the directory
\* given (if one is given), <cwd>/cursors, <cwd>/Koosh/cursors and
\* ~/.icons/Koosh/cursors; it returns an error exactly when none of them
\* exists, so no place is returned while one before it exists.
C20_SourceByPriority ==
    (cmd = "find_cursor_source" /\ pc = "done") =>
        LET Given == IF args.source_dir = NoPath THEN <<>> ELSE <<args.source_dir>>
            Candidates == Given \o <<Cwd \o <<"cursors">>,
                                     Cwd \o <<"Koosh", "cursors">>,
                                     Home \o <<".icons", "Koosh", "cursors">>>>
            There == {k \in DOMAIN Candidates :
                         LET q == Follow(fs, Candidates[k], MaxHops)
                         IN  q \in DOMAIN fs /\ fs[q].kind # "link"}
        IN  IF There = {}
            THEN result = "Err"
            ELSE /\ result = "Ok"
                 /\ \E k \in There :
                      /\ cur = Candidates[k]
                      /\ \A j \in There : k <= j

\* C20 happens: a directory was given that does not exist (a dangling
\* link), ./cursors is missing, and of ./Koosh/cursors and
\* ~/.icons/Koosh/cursors, which both exist, the first was returned.
C20_Witness ==
    /\ cmd = "find_cursor_source"
    /\ pc = "done"
    /\ result = "Ok"
    /\ args.source_dir = Root \o <<"given">>
    /\ IsSymlink(fs, Root \o <<"given">>)
    /\ ~Exists(fs, Cwd \o <<"cursors">>)
    /\ Exists(fs, get_icons_dir \o <<"Koosh", "cursors">>)
    /\ cur = Cwd \o <<"Koosh", "cursors">>

\* C21: when add-links fails because no cursor source is found, the
\* filesystem is as it was: a theme directory <parent of cwd>/<theme name>
\* and an installation ~/.icons/<theme name> that existed before the run
\* are still there with everything they held.
C21_NoSourceChangesNothing ==
    [][(/\ cmd = "add-links"
        /\ pc = "start"
        /\ result' = "Err"
        /\ find_cursor_source(fs', args.source_dir) = NoPath)
       => \A p \in DOMAIN fs :
            (IsPrefix(add_links_theme_path, p) \/ IsPrefix(add_links_user_theme_dir, p))
            => p \in DOMAIN fs' /\ fs'[p] = fs[p]]_vars

\* C22: create-animated never modifies its input: once the command has
\* returned, the input theme directory, its cursors directory and every
\* entry of it are there as the run found them, also when the output theme
\* names the same directory.
C22_InputUnchanged ==
    (cmd = "create-animated" /\ result # "none") =>
        \A p \in DOMAIN fs0 :
            IsPrefix(animated_input_path, p) => p \in DOMAIN fs /\ fs[p] = fs0[p]

\* C23: after create-animated has returned Ok, every file the run found in
\* the current directory, also one with the extension conf, is still there
\* unchanged: the run removed only what it created itself.
C23_OwnFilesOnlyRemoved ==
    (cmd = "create-animated" /\ result = "Ok") =>
        \A p \in Children(fs0, Cwd) :
            fs0[p].kind # "dir" => p \in DOMAIN fs /\ fs[p] = fs0[p]

===========================================================================
